---- MODULE Spec2Model ----
(***************************************************************************)
(* Model of the NestJS orchestration gateway (apps/backend): the chat,     *)
(* documents and agent controllers and the services that dispatch to the   *)
(* downstream Python agents.                                               *)
(*                                                                         *)
(* Strings the code inspects (the Authorization header, the message) are   *)
(* sequences of one-character strings, so that startsWith and trim are     *)
(* computed.  Strings the code only copies are opaque tokens.              *)
(* JavaScript undefined / null are the tokens "undefined" / "null".        *)
(***************************************************************************)
EXTENDS Integers, Sequences, FiniteSets, TLC

VARIABLES
    phase,      \* per request: "idle", "pending" (awaiting the downstream), "done"
    inp,        \* the inbound request: route, headers, body, file
    calls,      \* the outbound calls issued for the request, in order
    elapsed,    \* milliseconds since the pending call was issued
    aborted,    \* the pending call was cancelled by the gateway
    outcome,    \* what the downstream call ended with
    resp,       \* the response sent to the caller
    closed,     \* the caller closed its connection before the response
    \* the state of the chat UI (App.tsx)
    activeAgent,    \* the selected agent tab
    uiUserRole,     \* the UI's userRole state: the selected role
    messages,       \* the latest messages of the conversation
    inputMessage,   \* the text of the input field
    loading,        \* the loading flag
    selectedFile,   \* the file chosen for upload
    fetches         \* the UI's requests to the gateway that are in flight

\* the gateway's variables and the UI's variables
gwVars == <<phase, inp, calls, elapsed, aborted, outcome, resp, closed>>
uiVars == <<activeAgent, uiUserRole, messages, inputMessage, loading,
            selectedFile, fetches>>
vars == <<gwVars, uiVars>>

(***************************************************************************)
(* Bounds of the model                                                     *)
(***************************************************************************)
\* granularity of the clock, in milliseconds
TickMs == 30000
\* the clock of a pending call is not advanced beyond this many milliseconds
MaxWaitMs == 150000

\* the UI's conversation is followed over its latest MaxMessages messages
MaxMessages == 2

\* request slots handled by Spec: one request at a time, the slot is reused
Slots == {"r1"}

(***************************************************************************)
(* JavaScript values                                                       *)
(***************************************************************************)
Undefined == [t |-> "undefined", s |-> <<>>]
Str(s) == [t |-> "string", s |-> s]
Num(s) == [t |-> "number", s |-> s]

\* !v : undefined, null, the empty string and 0 are falsy
Falsy(v) ==
    \/ v.t \in {"undefined", "null"}
    \/ v.t = "string" /\ v.s = <<>>
    \/ v.t = "number" /\ v.s = <<"0">>

\* String.prototype.startsWith
StartsWith(s, prefix) ==
    /\ Len(s) >= Len(prefix)
    /\ SubSeq(s, 1, Len(prefix)) = prefix

\* the characters String.prototype.trim removes: the WhiteSpace and
\* LineTerminator code points of ECMAScript (tab, vertical tab, form feed,
\* space, no-break space, zero width no-break space, the space separators
\* of Unicode, line feed, carriage return, line and paragraph separator).
\* A character without an escape is written as its code point.
WhiteSpace ==
    {" ", "\t", "\n", "\r", "\f", "U+000B", "U+00A0", "U+FEFF", "U+1680",
     "U+2000", "U+2001", "U+2002", "U+2003", "U+2004", "U+2005", "U+2006",
     "U+2007", "U+2008", "U+2009", "U+200A", "U+2028", "U+2029", "U+202F",
     "U+205F", "U+3000"}

RECURSIVE TrimStart(_)
TrimStart(s) ==
    IF s # <<>> /\ Head(s) \in WhiteSpace THEN TrimStart(Tail(s)) ELSE s

RECURSIVE TrimEnd(_)
TrimEnd(s) ==
    IF s # <<>> /\ s[Len(s)] \in WhiteSpace
    THEN TrimEnd(SubSeq(s, 1, Len(s) - 1))
    ELSE s

\* String.prototype.trim
Trim(s) == TrimEnd(TrimStart(s))

(***************************************************************************)
(* Routes and the dispatch configuration                                   *)
(***************************************************************************)
TextRoutes == {"chat/database", "chat/rag", "chat/smart"}
ChatRoutes == TextRoutes \cup {"chat/ocr"}
DocumentsRoutes ==
    {"documents/query", "documents/load", "documents/status",
     "documents/models"}

AGENT_URL == "http://localhost:8000/chat"
RAG_URL == "http://localhost:8000/rag"
SMART_URL == "http://localhost:8000/smart"
OCR_URL == "http://localhost:8000/ocr"
HEALTH_URL == "http://localhost:8000/health"
DOCUMENT_QUERY_URL == "http://localhost:8000/documents/query"
DOCUMENT_LOAD_URL == "http://localhost:8000/documents/load"
DOCUMENT_STATUS_URL == "http://localhost:8000/documents/status"
DOCUMENT_MODELS_URL == "http://localhost:8000/documents/models"

\* the axios timeout option of each dispatch, 0 = no timeout
AgentTimeout == 30000
RagTimeout == 30000
SmartTimeout == 30000
OCRTimeout == 120000
DocumentQueryTimeout == 30000
DocumentLoadTimeout == 30000

(***************************************************************************)
(* Access gate and validation (controllers)                                *)
(***************************************************************************)
BearerPrefix == <<"B", "e", "a", "r", "e", "r", " ">>

\* variant: the scheme is compared without its trailing space
Unauthorized_NoSpace(auth) ==
    \/ Falsy(auth)
    \/ ~ StartsWith(auth.s, <<"B", "e", "a", "r", "e", "r">>)

\* if (!auth || !auth.startsWith('Bearer ')) throw 401
Unauthorized(auth) ==
    \/ Falsy(auth)
    \/ ~ StartsWith(auth.s, BearerPrefix)

\* body.message.trim() : not a function unless the message is a string
TrimThrows(message) == ~ Falsy(message) /\ message.t # "string"

\* variant: the message is not trimmed before its length is taken
MessageMissing_NoTrim(message) ==
    \/ Falsy(message)
    \/ Len(message.s) = 0

\* if (!body.message || body.message.trim().length === 0) throw 400
MessageMissing(message) ==
    \/ Falsy(message)
    \/ Len(Trim(message.s)) = 0

allowedTypes == <<"application/pdf", "image/png", "image/jpeg", "image/jpg">>

\* Array.prototype.includes
Includes(arr, x) == \E i \in 1..Len(arr) : arr[i] = x

\* file.mimetype || ''
OrEmpty(m) == IF m = "undefined" THEN "" ELSE m

\* variant: any image type is accepted
InvalidType_AnyImage(mimetype) ==
    ~ Includes(allowedTypes \o <<"image/gif">>, OrEmpty(mimetype))

\* !allowedTypes.includes(file.mimetype || '')
InvalidType(mimetype) == ~ Includes(allowedTypes, OrEmpty(mimetype))

maxSize == 10 * 1024 * 1024

\* a numeric field that is undefined
NoNumber == -1

\* file.size || 0
OrZero(n) == IF n = NoNumber THEN 0 ELSE n

\* variant: the limit itself is rejected
TooLarge_Inclusive(size) == OrZero(size) >= maxSize

\* (file.size || 0) > maxSize
TooLarge(size) == OrZero(size) > maxSize

\* variant: the buffer is not checked before the upload
BufferEmpty_Unchecked(bufferLength) == FALSE

\* if (!file.buffer || file.buffer.length === 0) throw new Error(...)
BufferEmpty(bufferLength) == bufferLength = NoNumber \/ bufferLength = 0

(***************************************************************************)
(* Exceptions and JSON objects                                             *)
(***************************************************************************)
NoError == [kind |-> "none", status |-> 0, message |-> "", code |-> "none"]

\* new HttpException(message, status)
HttpException(message, status) ==
    [kind |-> "HttpException", status |-> status, message |-> message,
     code |-> "none"]

\* a plain Error / TypeError; code is "none" when the error has no code
JsError(message, code) ==
    [kind |-> "Error", status |-> 0, message |-> message, code |-> code]

UNAUTHORIZED == 401
BAD_REQUEST == 400
REQUEST_TIMEOUT == 408
INTERNAL_SERVER_ERROR == 500
SERVICE_UNAVAILABLE == 503
\* status of a handler that returns normally: @Post() and @Get()
CREATED == 201
OK == 200

Fields ==
    {"shape", "success", "response", "timestamp", "sql_info", "sources",
     "agent_used", "routing_info", "extracted_text", "analysis",
     "recommendations", "alerts", "status", "nestjs", "python_agent",
     "models", "error", "model_config", "message", "documents_count"}

\* an object literal none of whose fields is set
EmptyObj == [f \in Fields |-> IF f = "shape" THEN "object" ELSE "undefined"]
\* a body that is a string (also the empty body), JSON null, no body at all
StringBody == [EmptyObj EXCEPT !.shape = "string"]
NullBody == [EmptyObj EXCEPT !.shape = "null"]
NoBody == [EmptyObj EXCEPT !.shape = "none"]

\* data.field : undefined on a string, a TypeError on null
Get(data, field) == IF data.shape = "object" THEN data[field] ELSE "undefined"
ReadThrows(data) == data.shape = "null"

\* a field value used as a condition: if (x), x || y
Truthy(x) == x \notin {"undefined", "null", "false", "", "0"}

\* variant: the field is copied without the default
OrNull_Identity(x) == x

\* x || null
OrNull(x) == IF Truthy(x) THEN x ELSE "null"

(***************************************************************************)
(* ChatService: the outbound request of each dispatch and its catch block  *)
(***************************************************************************)
NoCall ==
    [url |-> "none", message |-> Undefined, user_role |-> "undefined",
     mimetype |-> "undefined", bytes |-> NoNumber, question |-> Undefined,
     model_config |-> "undefined", timeout |-> 0]

\* variant: the call is issued without the timeout option
sendToAgentRequest_NoTimeout(message, userRole) ==
    [NoCall EXCEPT !.url = AGENT_URL, !.message = message,
                   !.user_role = userRole]

sendToAgentRequest(message, userRole) ==
    [NoCall EXCEPT !.url = AGENT_URL, !.message = message,
                   !.user_role = userRole, !.timeout = AgentTimeout]

\* variant: the retrieval call is posted to the database agent's URL
sendToRagRequest_AgentUrl(message) ==
    [NoCall EXCEPT !.url = AGENT_URL, !.message = message,
                   !.timeout = RagTimeout]

sendToRagRequest(message) ==
    [NoCall EXCEPT !.url = RAG_URL, !.message = message,
                   !.timeout = RagTimeout]

\* variant: a missing or unknown role is replaced by the lowest one
sendToSmartAgentRequest_DefaultRole(message, userRole) ==
    [NoCall EXCEPT !.url = SMART_URL, !.message = message,
                   !.user_role = IF userRole \in {"employee", "manager", "admin"}
                                 THEN userRole ELSE "employee",
                   !.timeout = SmartTimeout]

sendToSmartAgentRequest(message, userRole) ==
    [NoCall EXCEPT !.url = SMART_URL, !.message = message,
                   !.user_role = userRole, !.timeout = SmartTimeout]

\* file.mimetype || 'application/octet-stream'
OrOctetStream(m) ==
    IF m \in {"undefined", ""} THEN "application/octet-stream" ELSE m

sendToOCRAgentRequest(file) ==
    [NoCall EXCEPT !.url = OCR_URL, !.mimetype = OrOctetStream(file.mimetype),
                   !.bytes = file.bufferLength, !.timeout = OCRTimeout]

UnavailableMessage(route) ==
    CASE route = "chat/database" -> "Agent service is unavailable"
      [] route = "chat/rag" -> "RAG service is unavailable"
      [] route = "chat/smart" -> "Smart agent service is unavailable"
      [] route = "chat/ocr" -> "OCR service is unavailable"

TimeoutMessage(route) ==
    CASE route = "chat/database" -> "Agent service timeout"
      [] route = "chat/rag" -> "RAG service timeout"
      [] route = "chat/smart" -> "Smart agent service timeout"
      [] route = "chat/ocr" -> "OCR service timeout"

FailedMessage(route) ==
    CASE route = "chat/database" -> "Failed to communicate with agent"
      [] route = "chat/rag" -> "Failed to communicate with RAG agent"
      [] route = "chat/smart" -> "Failed to communicate with smart agent"
      [] route = "chat/ocr" -> "Failed to communicate with OCR agent"

\* variant: an error raised by the service itself, which has no code, is
\* reported as an input error with its own message
ServiceCatch_LocalIsBadRequest(route, error) ==
    IF error.code = "none"
    THEN HttpException(error.message, BAD_REQUEST)
    ELSE IF error.code = "ECONNREFUSED"
    THEN HttpException(UnavailableMessage(route), SERVICE_UNAVAILABLE)
    ELSE IF error.code = "ECONNABORTED"
    THEN HttpException(TimeoutMessage(route), REQUEST_TIMEOUT)
    ELSE HttpException(FailedMessage(route), INTERNAL_SERVER_ERROR)

\* the catch block of sendToAgent / sendToRag / sendToSmartAgent /
\* sendToOCRAgent: the HttpException thrown for a caught error
ServiceCatch(route, error) ==
    IF error.code # "none" /\ error.code = "ECONNREFUSED"
    THEN HttpException(UnavailableMessage(route), SERVICE_UNAVAILABLE)
    ELSE IF error.code # "none" /\ error.code = "ECONNABORTED"
    THEN HttpException(TimeoutMessage(route), REQUEST_TIMEOUT)
    ELSE HttpException(FailedMessage(route), INTERNAL_SERVER_ERROR)

\* variant: every caught error is wrapped, HttpExceptions included
ControllerCatch_WrapAll(error) ==
    HttpException("Internal server error", INTERNAL_SERVER_ERROR)

\* the catch block of the controller handlers
ControllerCatch(error) ==
    IF error.kind = "HttpException"
    THEN error
    ELSE HttpException("Internal server error", INTERNAL_SERVER_ERROR)

(***************************************************************************)
(* ChatController: gates and return values                                 *)
(***************************************************************************)
\* chatDatabase, chatRag, chatSmart up to the service call: the exception
\* thrown, NoError when the request is dispatched
TextGate(auth, message) ==
    IF Unauthorized(auth)
    THEN HttpException("Unauthorized", UNAUTHORIZED)
    ELSE IF TrimThrows(message)
    THEN JsError("body.message.trim is not a function", "none")
    ELSE IF MessageMissing(message)
    THEN HttpException("Message is required", BAD_REQUEST)
    ELSE NoError

NoFile ==
    [present |-> FALSE, mimetype |-> "undefined", size |-> NoNumber,
     bufferLength |-> NoNumber]

\* variant: the size is checked before the type
OCRGate_SizeFirst(auth, file) ==
    IF Unauthorized(auth)
    THEN HttpException("Unauthorized", UNAUTHORIZED)
    ELSE IF ~ file.present
    THEN HttpException("File is required", BAD_REQUEST)
    ELSE IF TooLarge(file.size)
    THEN HttpException("File too large. Maximum size is 10MB", BAD_REQUEST)
    ELSE IF InvalidType(file.mimetype)
    THEN HttpException(
             "Invalid file type. Only PDF, PNG, JPG, JPEG are allowed",
             BAD_REQUEST)
    ELSE NoError

\* processOCR up to the service call
OCRGate(auth, file) ==
    IF Unauthorized(auth)
    THEN HttpException("Unauthorized", UNAUTHORIZED)
    ELSE IF ~ file.present
    THEN HttpException("File is required", BAD_REQUEST)
    ELSE IF InvalidType(file.mimetype)
    THEN HttpException(
             "Invalid file type. Only PDF, PNG, JPG, JPEG are allowed",
             BAD_REQUEST)
    ELSE IF TooLarge(file.size)
    THEN HttpException("File too large. Maximum size is 10MB", BAD_REQUEST)
    ELSE NoError

\* variant: the query block is not copied into the reply
chatDatabaseReturn_NoSqlInfo(data) ==
    [EmptyObj EXCEPT !.success = Get(data, "success"),
                     !.response = Get(data, "response"),
                     !.timestamp = Get(data, "timestamp"),
                     !.sql_info = "null"]

chatDatabaseReturn(data) ==
    [EmptyObj EXCEPT !.success = Get(data, "success"),
                     !.response = Get(data, "response"),
                     !.timestamp = Get(data, "timestamp"),
                     !.sql_info = OrNull(Get(data, "sql_info"))]

chatRagReturn(data) ==
    [EmptyObj EXCEPT !.success = Get(data, "success"),
                     !.response = Get(data, "response"),
                     !.timestamp = Get(data, "timestamp"),
                     !.sources = OrNull(Get(data, "sources"))]

\* variant: the blocks are defaulted as on the database and rag routes
chatSmartReturn_OrNull(data) ==
    [EmptyObj EXCEPT !.success = Get(data, "success"),
                     !.response = Get(data, "response"),
                     !.timestamp = Get(data, "timestamp"),
                     !.agent_used = Get(data, "agent_used"),
                     !.routing_info = Get(data, "routing_info"),
                     !.sql_info = OrNull(Get(data, "sql_info")),
                     !.sources = OrNull(Get(data, "sources"))]

chatSmartReturn(data) ==
    [EmptyObj EXCEPT !.success = Get(data, "success"),
                     !.response = Get(data, "response"),
                     !.timestamp = Get(data, "timestamp"),
                     !.agent_used = Get(data, "agent_used"),
                     !.routing_info = Get(data, "routing_info"),
                     !.sql_info = Get(data, "sql_info"),
                     !.sources = Get(data, "sources")]

processOCRReturn(data) ==
    [EmptyObj EXCEPT !.success = Get(data, "success"),
                     !.extracted_text = Get(data, "extracted_text"),
                     !.analysis = Get(data, "analysis"),
                     !.recommendations = Get(data, "recommendations"),
                     !.alerts = Get(data, "alerts"),
                     !.timestamp = Get(data, "timestamp")]

(***************************************************************************)
(* Inputs                                                                  *)
(***************************************************************************)
AuthHeaders ==
    {Undefined,
     Str(<<>>),
     Str(<<"B", "e", "a", "r", "e", "r">>),
     Str(<<"b", "e", "a", "r", "e", "r", " ", "t">>),
     Str(<<"B", "a", "s", "i", "c", " ", "t">>),
     Str(<<" ", "B", "e", "a", "r", "e", "r", " ", "t">>),
     Str(<<"B", "e", "a", "r", "e", "r", " ">>),
     Str(<<"B", "e", "a", "r", "e", "r", " ", "t">>)}

Messages ==
    {Undefined,
     Str(<<>>),
     Str(<<" ">>),
     Str(<<"\t", " ", "\n">>),
     Str(<<"\r", "\f", "U+00A0">>),
     Str(<<"h", "i">>),
     Str(<<" ", "h", " ", "i", " ">>),
     Num(<<"0">>),
     Num(<<"7">>)}

Roles == {"undefined", "employee", "manager", "admin", "root"}

MimeTypes ==
    {"undefined", "", "application/pdf", "image/png", "image/jpeg",
     "image/jpg", "image/gif", "text/plain"}

Sizes == {0, 1, maxSize - 1, maxSize, maxSize + 1, 12 * 1024 * 1024}

\* an uploaded file: multer's memory storage sets size to the length of the
\* buffer; the handler's interface also allows either to be missing
Files ==
    {NoFile}
    \cup {[present |-> TRUE, mimetype |-> m, size |-> n, bufferLength |-> b] :
            m \in MimeTypes, n \in Sizes, b \in {NoNumber}} 
    \cup {[present |-> TRUE, mimetype |-> m, size |-> n, bufferLength |-> n] :
            m \in MimeTypes, n \in Sizes}
    \cup {[present |-> TRUE, mimetype |-> m, size |-> NoNumber,
           bufferLength |-> NoNumber] : m \in MimeTypes}

Questions == {Undefined, Str(<<>>), Str(<<" ">>), Str(<<"w", "h", "y">>)}

ModelConfigs == {"undefined", "CONFIG1"}

NoInput ==
    [route |-> "none", auth |-> Undefined, message |-> Undefined,
     user_role |-> "undefined", file |-> NoFile, question |-> Undefined,
     model_configuration |-> "undefined"]

(***************************************************************************)
(* Downstream behaviour                                                    *)
(***************************************************************************)
TextReply(success, response, timestamp) ==
    [EmptyObj EXCEPT !.success = success, !.response = response,
                     !.timestamp = timestamp]

\* 2xx bodies that lack a required field or are not an object
MalformedReplies ==
    {EmptyObj, [EmptyObj EXCEPT !.response = "partial"], StringBody, NullBody}

DatabaseReplies ==
    {[TextReply("true", "42 orders", "T1") EXCEPT !.sql_info = "SQL1"],
     [TextReply("true", "42 orders", "T1") EXCEPT !.sql_info = "null"],
     TextReply("true", "hello", "T1"),
     TextReply("false", "not allowed", "T1")}

RagReplies ==
    {[TextReply("true", "15 days", "T1") EXCEPT !.sources = "SOURCES1"],
     [TextReply("true", "15 days", "T1") EXCEPT !.sources = "null"],
     TextReply("true", "hello", "T1"),
     TextReply("false", "rag failed", "T1")}

SmartReplies ==
    {[TextReply("true", "both", "T1") EXCEPT
         !.agent_used = "both", !.routing_info = "ROUTING1",
         !.sql_info = "SQL1", !.sources = "SOURCES1"],
     [TextReply("true", "db", "T1") EXCEPT
         !.agent_used = "database", !.routing_info = "ROUTING1",
         !.sql_info = "SQL1"],
     [TextReply("true", "rag", "T1") EXCEPT
         !.agent_used = "rag", !.routing_info = "ROUTING1",
         !.sources = "SOURCES1"],
     [TextReply("true", "none", "T1") EXCEPT
         !.agent_used = "rag", !.routing_info = "null",
         !.sql_info = "null", !.sources = "null"],
     [TextReply("true", "bare", "T1") EXCEPT !.agent_used = "database"],
     [TextReply("false", "smart failed", "T1") EXCEPT !.agent_used = "error"]}

OCRReplies ==
    {[EmptyObj EXCEPT !.success = "true", !.extracted_text = "TEXT1",
                      !.analysis = "ANALYSIS1", !.recommendations = "RECS1",
                      !.alerts = "ALERTS1", !.timestamp = "T1"],
     [EmptyObj EXCEPT !.success = "true", !.extracted_text = "TEXT1",
                      !.analysis = "ANALYSIS1", !.timestamp = "T1"],
     [EmptyObj EXCEPT !.success = "false", !.extracted_text = "",
                      !.analysis = "ocr failed", !.recommendations = "null",
                      !.alerts = "null", !.timestamp = "T1"]}

HealthReplies ==
    {[EmptyObj EXCEPT !.status = "healthy", !.timestamp = "T1"],
     [EmptyObj EXCEPT !.status = "unhealthy", !.timestamp = "T1"],
     [EmptyObj EXCEPT !.status = "", !.timestamp = "T1"]}

DocumentQueryReplies ==
    {[TextReply("true", "answer", "T1") EXCEPT !.model_config = "CONFIG1"],
     TextReply("true", "answer", "T1"),
     TextReply("false", "no documents", "T1")}

DocumentLoadReplies ==
    {[EmptyObj EXCEPT !.success = "true", !.message = "loaded",
                      !.documents_count = "12", !.timestamp = "T1"],
     [EmptyObj EXCEPT !.success = "false", !.message = "load failed",
                      !.documents_count = "0", !.timestamp = "T1"]}

DocumentStatusReplies ==
    {[EmptyObj EXCEPT !.success = "true", !.status = "STATUS1",
                      !.timestamp = "T1"],
     [EmptyObj EXCEPT !.success = "false", !.status = "STATUS2",
                      !.timestamp = "T1"]}

ModelsReplies ==
    {[EmptyObj EXCEPT !.success = "true", !.models = "MODELS1",
                      !.timestamp = "T1"],
     [EmptyObj EXCEPT !.success = "false", !.timestamp = "T1"]}

\* the 2xx bodies the downstream may answer a call of the route with
Replies(route) ==
    MalformedReplies \cup
    CASE route = "chat/database" -> DatabaseReplies
      [] route = "chat/rag" -> RagReplies
      [] route = "chat/smart" -> SmartReplies
      [] route = "chat/ocr" -> OCRReplies
      [] route = "chat/health" -> HealthReplies
      [] route \in {"documents/query", "agent/query"} -> DocumentQueryReplies
      [] route = "documents/load" -> DocumentLoadReplies
      [] route = "documents/status" -> DocumentStatusReplies
      [] route \in {"documents/models", "agent/models"} -> ModelsReplies

\* error codes of a call that ends without a 2xx reply, other than the
\* timeout of the call: connection-level failures and non-2xx replies
ConnectionCodes ==
    {"ECONNREFUSED", "ENOTFOUND", "EHOSTUNREACH", "ENETUNREACH",
     "ECONNRESET", "ETIMEDOUT"}
BadStatusCodes == {"ERR_BAD_RESPONSE", "ERR_BAD_REQUEST"}
FailureCodes == ConnectionCodes \cup BadStatusCodes

NoOutcome == [kind |-> "none", code |-> "none", data |-> NoBody]
ReplyOutcome(data) == [kind |-> "reply", code |-> "none", data |-> data]
ErrorOutcome(code) == [kind |-> "error", code |-> code, data |-> NoBody]
\* the service threw before any call was issued
LocalOutcome == [kind |-> "local", code |-> "none", data |-> NoBody]

(***************************************************************************)
(* Responses                                                               *)
(***************************************************************************)
NoResponse == [status |-> 0, message |-> "", body |-> NoBody]

\* the response Nest sends for an exception that leaves the handler
ErrorResponse(exception) ==
    [status |-> exception.status, message |-> exception.message,
     body |-> NoBody]

\* the response Nest sends when the handler returns body
ReturnResponse(status, body) ==
    [status |-> status, message |-> "", body |-> body]

(***************************************************************************)
(* Handlers: the part after the awaited downstream call                    *)
(***************************************************************************)
\* the controller's return statement of each chat route
ChatReturn(route, data) ==
    CASE route = "chat/database" -> chatDatabaseReturn(data)
      [] route = "chat/rag" -> chatRagReturn(data)
      [] route = "chat/smart" -> chatSmartReturn(data)
      [] route = "chat/ocr" -> processOCRReturn(data)

\* variant: a reply whose success flag is false is raised as a failure
ChatOnReply_FailOnFalse(route, data) ==
    IF ReadThrows(data) \/ Get(data, "success") = "false"
    THEN ErrorResponse(ControllerCatch(
             JsError("Cannot read properties of null", "none")))
    ELSE ReturnResponse(CREATED, ChatReturn(route, data))

\* the service returns response.data and the controller builds its reply
ChatOnReply(route, data) ==
    IF ReadThrows(data)
    THEN ErrorResponse(ControllerCatch(
             JsError("Cannot read properties of null", "none")))
    ELSE ReturnResponse(CREATED, ChatReturn(route, data))

\* error.message of the error the HTTP client rejects with: a text of the
\* client library that names the failure
AxiosErrorMessage(code) ==
    IF code = "ERR_BAD_RESPONSE" THEN "Request failed with status code 500"
    ELSE IF code = "ERR_BAD_REQUEST" THEN "Request failed with status code 404"
    ELSE IF code = "ECONNABORTED" THEN "timeout exceeded"
    ELSE "connect " \o code

\* variant: a failed call is answered with a canned reply
ChatOnError_Fallback(route, code) ==
    ReturnResponse(CREATED,
        [EmptyObj EXCEPT !.success = "true",
                         !.response = "The service is busy, try again later"])

\* the awaited call rejects with an error carrying code
ChatOnError(route, code) ==
    ErrorResponse(ControllerCatch(
        ServiceCatch(route, JsError(AxiosErrorMessage(code), code))))

(***************************************************************************)
(* ChatController.healthCheck                                              *)
(***************************************************************************)
healthCheckRequest == [NoCall EXCEPT !.url = HEALTH_URL]

\* response.data.status || 'unknown'
OrUnknown(x) == IF Truthy(x) THEN x ELSE "unknown"

\* variant: a failed probe is reported as an unavailable service
Unhealthy_Throws ==
    ErrorResponse(HttpException("Agent service is unavailable",
                                SERVICE_UNAVAILABLE))

\* the catch block of healthCheck
Unhealthy ==
    ReturnResponse(OK, [EmptyObj EXCEPT !.status = "unhealthy",
                                        !.nestjs = "up",
                                        !.python_agent = "down"])

\* variant: the gateway reports what the downstream says about itself
healthCheckOnReply_TrustsStatus(data) ==
    IF ReadThrows(data) \/ Get(data, "status") # "healthy"
    THEN Unhealthy
    ELSE ReturnResponse(OK,
             [EmptyObj EXCEPT !.status = "healthy", !.nestjs = "up",
                              !.python_agent = OrUnknown(Get(data, "status"))])

healthCheckOnReply(data) ==
    IF ReadThrows(data)
    THEN Unhealthy
    ELSE ReturnResponse(OK,
             [EmptyObj EXCEPT !.status = "healthy", !.nestjs = "up",
                              !.python_agent = OrUnknown(Get(data, "status"))])

(***************************************************************************)
(* DocumentsService and DocumentsController                                *)
(***************************************************************************)
documentsQueryRequest(question, modelConfig) ==
    [NoCall EXCEPT !.url = DOCUMENT_QUERY_URL, !.question = question,
                   !.model_config = modelConfig,
                   !.timeout = DocumentQueryTimeout]

documentsLoadRequest(modelConfig) ==
    [NoCall EXCEPT !.url = DOCUMENT_LOAD_URL, !.model_config = modelConfig,
                   !.timeout = DocumentLoadTimeout]

getDocumentStatusRequest == [NoCall EXCEPT !.url = DOCUMENT_STATUS_URL]

documentsModelsRequest == [NoCall EXCEPT !.url = DOCUMENT_MODELS_URL]

\* the catch block of DocumentsService.queryDocuments / loadDocuments
DocumentsCatch(error) ==
    IF error.code # "none" /\ error.code = "ECONNREFUSED"
    THEN HttpException("Document service is unavailable", SERVICE_UNAVAILABLE)
    ELSE IF error.code # "none" /\ error.code = "ECONNABORTED"
    THEN HttpException("Document service timeout", REQUEST_TIMEOUT)
    ELSE HttpException("Failed to communicate with document service",
                       INTERNAL_SERVER_ERROR)

\* the catch block of DocumentsService.getDocumentStatus
getDocumentStatusCatch(errorMessage) ==
    [EmptyObj EXCEPT !.success = "false", !.status = "NOT_LOADED",
                     !.error = errorMessage]

\* the catch block of DocumentsService.getAvailableModels
documentsModelsCatch(errorMessage) ==
    [EmptyObj EXCEPT !.success = "false", !.models = "{}",
                     !.error = errorMessage]

\* DocumentsController.queryDocuments up to the service call
QuestionGate(auth, question) ==
    IF Unauthorized(auth)
    THEN HttpException("Unauthorized", UNAUTHORIZED)
    ELSE IF TrimThrows(question)
    THEN JsError("body.question.trim is not a function", "none")
    ELSE IF MessageMissing(question)
    THEN HttpException("Question is required", BAD_REQUEST)
    ELSE NoError

\* loadDocuments, getDocumentStatus, getAvailableModels up to the call
AuthGate(auth) ==
    IF Unauthorized(auth)
    THEN HttpException("Unauthorized", UNAUTHORIZED)
    ELSE NoError

documentsQueryReturn(data) ==
    [EmptyObj EXCEPT !.success = Get(data, "success"),
                     !.response = Get(data, "response"),
                     !.model_config = OrNull(Get(data, "model_config")),
                     !.timestamp = Get(data, "timestamp")]

documentsLoadReturn(data) ==
    [EmptyObj EXCEPT !.success = Get(data, "success"),
                     !.message = Get(data, "message"),
                     !.documents_count = Get(data, "documents_count"),
                     !.model_config = OrNull(Get(data, "model_config")),
                     !.timestamp = Get(data, "timestamp")]

documentsStatusReturn(data) ==
    [EmptyObj EXCEPT !.success = Get(data, "success"),
                     !.status = Get(data, "status"),
                     !.timestamp = Get(data, "timestamp")]

\* the controller's reply built from what the service returned
DocumentsReturn(route, data) ==
    IF route = "documents/models"
    THEN ReturnResponse(OK, data)
    ELSE IF ReadThrows(data)
    THEN ErrorResponse(ControllerCatch(
             JsError("Cannot read properties of null", "none")))
    ELSE CASE route = "documents/query" ->
                ReturnResponse(CREATED, documentsQueryReturn(data))
           [] route = "documents/load" ->
                ReturnResponse(CREATED, documentsLoadReturn(data))
           [] route = "documents/status" ->
                ReturnResponse(OK, documentsStatusReturn(data))

DocumentsOnError(route, code) ==
    CASE route \in {"documents/query", "documents/load"} ->
            ErrorResponse(ControllerCatch(
                DocumentsCatch(JsError(AxiosErrorMessage(code), code))))
      [] route = "documents/status" ->
            DocumentsReturn(route,
                getDocumentStatusCatch(AxiosErrorMessage(code)))
      [] route = "documents/models" ->
            DocumentsReturn(route,
                documentsModelsCatch(AxiosErrorMessage(code)))

(***************************************************************************)
(* AgentService and AgentController (fetch, no timeout)                    *)
(***************************************************************************)
AGENT_BASE_URL == "http://localhost:8000"

agentQueryRequest(question, modelConfig) ==
    [NoCall EXCEPT !.url = AGENT_BASE_URL \o "/documents/query",
                   !.question = question, !.model_config = modelConfig]

agentModelsRequest ==
    [NoCall EXCEPT !.url = AGENT_BASE_URL \o "/documents/models"]

\* the HttpException of the AgentController catch blocks: status 500 with
\* the body {success: false, message: errorMessage}
AgentControllerCatch(errorMessage) ==
    [status |-> INTERNAL_SERVER_ERROR, message |-> "",
     body |-> [EmptyObj EXCEPT !.success = "false",
                               !.message = errorMessage]]

\* the catch block of AgentService.queryDocuments rethrows
agentQueryCatch(message) == "Failed to query documents: " \o message

\* response.json() rejects unless the body is JSON
JsonThrows(data) == data.shape = "string"

agentQueryOnReply(data) ==
    IF JsonThrows(data)
    THEN AgentControllerCatch(agentQueryCatch("Unexpected token"))
    ELSE IF ReadThrows(data)
    THEN AgentControllerCatch(
             agentQueryCatch("Cannot read properties of null"))
    ELSE IF Truthy(Get(data, "success"))
    THEN ReturnResponse(CREATED,
             [EmptyObj EXCEPT !.success = "true",
                              !.response = Get(data, "response")])
    ELSE ReturnResponse(CREATED,
             [EmptyObj EXCEPT !.success = "true",
                              !.response = "Error: " \o Get(data, "response")])

\* the message of the error that ends the fetch call: the service's own
\* error for a non-2xx reply; "terminated" when the socket closes after the
\* head, while response.json() reads the body; otherwise the text of
\* fetch's rejection, which is the same for every connection failure (the
\* failure code is in error.cause, which is not read)
FetchErrorMessage(code) ==
    IF code = "ERR_BAD_RESPONSE" THEN "HTTP error! status: 500"
    ELSE IF code = "ERR_BAD_REQUEST" THEN "HTTP error! status: 404"
    ELSE IF code = "BODY_TERMINATED" THEN "terminated"
    ELSE "fetch failed"

agentQueryOnError(code) ==
    AgentControllerCatch(agentQueryCatch(FetchErrorMessage(code)))

\* the catch block of AgentService.getAvailableModels
fallbackModels == "FALLBACK_MODELS"

agentModelsReturn(models) ==
    ReturnResponse(OK, [EmptyObj EXCEPT !.success = "true",
                                        !.models = models])

agentModelsOnReply(data) ==
    IF JsonThrows(data) \/ ReadThrows(data)
    THEN agentModelsReturn(fallbackModels)
    ELSE IF Truthy(Get(data, "success"))
    THEN agentModelsReturn(Get(data, "models"))
    ELSE agentModelsReturn(fallbackModels)

\* variant: the failure of the models call is raised to the controller
agentModelsOnError_Throws ==
    AgentControllerCatch("Failed to get models from service")

agentModelsOnError == agentModelsReturn(fallbackModels)

(***************************************************************************)
(* What the awaiting handler does with the end of the call                 *)
(***************************************************************************)
OnReply(route, data) ==
    CASE route \in ChatRoutes -> ChatOnReply(route, data)
      [] route = "chat/health" -> healthCheckOnReply(data)
      [] route \in DocumentsRoutes -> DocumentsReturn(route, data)
      [] route = "agent/query" -> agentQueryOnReply(data)
      [] route = "agent/models" -> agentModelsOnReply(data)

OnError(route, code) ==
    CASE route \in ChatRoutes -> ChatOnError(route, code)
      [] route = "chat/health" -> Unhealthy
      [] route \in DocumentsRoutes -> DocumentsOnError(route, code)
      [] route = "agent/query" -> agentQueryOnError(code)
      [] route = "agent/models" -> agentModelsOnError

(***************************************************************************)
(* The chat UI (App.tsx)                                                   *)
(*                                                                         *)
(* A request of the UI that is in flight is a record of its endpoint and   *)
(* of what it carries: the status probe, a chat message, an upload.  A     *)
(* message of the conversation is told by its role and the fixed part of   *)
(* its content; the user's text, the reply text and the gateway's error    *)
(* text are left out of it.                                                *)
(***************************************************************************)
\* how a request of the UI can settle: fetch rejects, or the gateway
\* answers with a status and a body that is a JSON object or not and may
\* carry a success flag
Settlements ==
    {[kind |-> "network", status |-> 0, json |-> FALSE,
      success |-> "undefined"]}
    \cup [kind : {"answer"}, status : {400, 401, 403, 408, 500, 503},
          json : {TRUE}, success : {"undefined"}]
    \cup [kind : {"answer"}, status : {201}, json : {TRUE},
          success : {"true", "false", "undefined"}]
    \cup [kind : {"answer"}, status : {201, 502}, json : {FALSE},
          success : {"undefined"}]

\* setMessages((prev) => [...prev, m]), followed over the latest messages
Remember(prev, m) ==
    LET all == Append(prev, m)
    IN  IF Len(all) <= MaxMessages
        THEN all
        ELSE SubSeq(all, Len(all) - MaxMessages + 1, Len(all))

\* the state after the first render and its effect: checkSystemStatus has
\* issued the status probe
UIInit ==
    /\ activeAgent = "database"
    /\ uiUserRole = "employee"
    /\ messages = <<>>
    /\ inputMessage = <<>>
    /\ loading = FALSE
    /\ selectedFile = "null"
    /\ fetches = <<[endpoint |-> "http://localhost:3000/chat/health",
                    message |-> <<>>, user_role |-> "undefined",
                    file |-> "null"]>>

\* the probe settles; checkSystemStatus only logs
checkSystemStatusSettles ==
    /\ \E i \in 1..Len(fetches) :
         /\ fetches[i].endpoint = "http://localhost:3000/chat/health"
         /\ fetches' = SubSeq(fetches, 1, i - 1)
                       \o SubSeq(fetches, i + 1, Len(fetches))
    /\ UNCHANGED <<activeAgent, uiUserRole, messages, inputMessage, loading,
                   selectedFile, gwVars>>

\* the user types into the input field
setInputMessage ==
    /\ \E text \in {<<>>, <<" ", "\r">>, <<"h", "i">>} :
         /\ text # inputMessage
         /\ inputMessage' = text
    /\ UNCHANGED <<activeAgent, uiUserRole, messages, loading, selectedFile,
                   fetches, gwVars>>

\* the user picks a file or clears the file input (shown on the ocr tab
\* of an empty conversation)
setSelectedFile ==
    /\ activeAgent = "ocr"
    /\ messages = <<>>
    /\ \E file \in {"null", "FILE1"} :
         /\ file # selectedFile
         /\ selectedFile' = file
    /\ UNCHANGED <<activeAgent, uiUserRole, messages, inputMessage, loading,
                   fetches, gwVars>>

\* the user picks an agent tab
setActiveAgent ==
    /\ \E agent \in {"database", "rag", "smart", "ocr"} :
         /\ agent # activeAgent
         /\ activeAgent' = agent
    /\ UNCHANGED <<uiUserRole, messages, inputMessage, loading, selectedFile,
                   fetches, gwVars>>

\* the user picks a role (the selector is shown on the database and smart
\* tabs)
setUserRole ==
    /\ activeAgent \in {"database", "smart"}
    /\ \E role \in {"employee", "manager", "admin"} :
         /\ role # uiUserRole
         /\ uiUserRole' = role
    /\ UNCHANGED <<activeAgent, messages, inputMessage, loading, selectedFile,
                   fetches, gwVars>>

clearChat ==
    /\ messages # <<>>
    /\ messages' = <<>>
    /\ UNCHANGED <<activeAgent, uiUserRole, inputMessage, loading,
                   selectedFile, fetches, gwVars>>

newChat ==
    /\ messages # <<>> \/ inputMessage # <<>>
    /\ messages' = <<>>
    /\ inputMessage' = <<>>
    /\ UNCHANGED <<activeAgent, uiUserRole, loading, selectedFile, fetches,
                   gwVars>>

\* variant: the loading flag is not consulted
handleSendMessage_NoLoadingCheck ==
    IF Trim(inputMessage) = <<>>
    THEN UNCHANGED vars
    ELSE /\ messages' = Remember(messages, "user")
         /\ inputMessage' = <<>>
         /\ loading' = TRUE
         /\ fetches' =
              Append(fetches,
                     [endpoint |->
                        IF activeAgent = "database"
                        THEN "http://localhost:3000/chat/database"
                        ELSE IF activeAgent = "rag"
                        THEN "http://localhost:3000/chat/rag"
                        ELSE "http://localhost:3000/chat/smart",
                      message |-> inputMessage,
                      user_role |->
                        IF activeAgent = "database" \/ activeAgent = "smart"
                        THEN uiUserRole ELSE "undefined",
                      file |-> "null"])
         /\ UNCHANGED <<activeAgent, uiUserRole, selectedFile, gwVars>>

\* handleSendMessage up to the awaited fetch (Send button or Enter key;
\* the Enter key calls it whatever the input and the flag are)
handleSendMessage ==
    IF Trim(inputMessage) = <<>> \/ loading
    THEN UNCHANGED vars
    ELSE /\ messages' = Remember(messages, "user")
         /\ inputMessage' = <<>>
         /\ loading' = TRUE
         /\ fetches' =
              Append(fetches,
                     [endpoint |->
                        IF activeAgent = "database"
                        THEN "http://localhost:3000/chat/database"
                        ELSE IF activeAgent = "rag"
                        THEN "http://localhost:3000/chat/rag"
                        ELSE "http://localhost:3000/chat/smart",
                      message |-> inputMessage,
                      user_role |->
                        IF activeAgent = "database" \/ activeAgent = "smart"
                        THEN uiUserRole ELSE "undefined",
                      file |-> "null"])
         /\ UNCHANGED <<activeAgent, uiUserRole, selectedFile, gwVars>>

\* handleSendMessage after the awaited fetch: the branches of the try
\* block, the catch block and the finally block
handleSendMessageSettles ==
    /\ \E i \in 1..Len(fetches), settlement \in Settlements :
         /\ fetches[i].endpoint \in {"http://localhost:3000/chat/database",
                                     "http://localhost:3000/chat/rag",
                                     "http://localhost:3000/chat/smart"}
         /\ fetches' = SubSeq(fetches, 1, i - 1)
                       \o SubSeq(fetches, i + 1, Len(fetches))
         /\ messages' =
              Remember(messages,
                IF settlement.kind = "network" \/ ~ settlement.json
                THEN "Error: Failed to connect to the agent. Please try again."
                ELSE IF settlement.status < 200 \/ settlement.status > 299
                THEN IF settlement.status = 403 THEN "Access Denied"
                     ELSE IF settlement.status = 401 THEN "Unauthorized"
                     ELSE IF settlement.status = 500 THEN "Server Error"
                     ELSE "Error: Request failed"
                ELSE IF ~ Truthy(settlement.success)
                THEN "Error: Request failed"
                ELSE "assistant")
    /\ loading' = FALSE
    /\ UNCHANGED <<activeAgent, uiUserRole, inputMessage, selectedFile,
                   gwVars>>

\* handleFileUpload up to the awaited fetch.  Its only caller is the click
\* on the upload button, which is rendered on the ocr tab of an empty
\* conversation and is disabled without a selected file and while loading
handleFileUpload ==
    /\ activeAgent = "ocr"
    /\ messages = <<>>
    /\ ~ (selectedFile = "null" \/ loading)
    /\ IF selectedFile = "null" \/ loading
       THEN UNCHANGED vars
       ELSE /\ loading' = TRUE
            /\ fetches' =
                 Append(fetches,
                        [endpoint |-> "http://localhost:3000/chat/ocr",
                         message |-> <<>>, user_role |-> "undefined",
                         file |-> selectedFile])
            /\ UNCHANGED <<activeAgent, uiUserRole, messages, inputMessage,
                           selectedFile, gwVars>>

\* handleFileUpload after the awaited fetch
handleFileUploadSettles ==
    /\ \E i \in 1..Len(fetches), settlement \in Settlements :
         /\ fetches[i].endpoint = "http://localhost:3000/chat/ocr"
         /\ fetches' = SubSeq(fetches, 1, i - 1)
                       \o SubSeq(fetches, i + 1, Len(fetches))
         /\ messages' =
              IF settlement.kind = "network" \/ ~ settlement.json
                 \/ settlement.status < 200 \/ settlement.status > 299
              THEN Remember(messages, "Error processing file")
              ELSE IF Truthy(settlement.success)
              THEN Remember(messages, "ocr")
              ELSE messages
    /\ loading' = FALSE
    /\ UNCHANGED <<activeAgent, uiUserRole, inputMessage, selectedFile,
                   gwVars>>

UINext ==
    \/ checkSystemStatusSettles
    \/ setInputMessage
    \/ setSelectedFile
    \/ setActiveAgent
    \/ setUserRole
    \/ clearChat
    \/ newChat
    \/ handleSendMessage
    \/ handleSendMessageSettles
    \/ handleFileUpload
    \/ handleFileUploadSettles

(***************************************************************************)
(* State machine                                                           *)
(***************************************************************************)
Init ==
    /\ phase = [r \in Slots |-> "idle"]
    /\ inp = [r \in Slots |-> NoInput]
    /\ calls = [r \in Slots |-> <<>>]
    /\ elapsed = [r \in Slots |-> 0]
    /\ aborted = [r \in Slots |-> FALSE]
    /\ outcome = [r \in Slots |-> NoOutcome]
    /\ resp = [r \in Slots |-> NoResponse]
    /\ closed = [r \in Slots |-> FALSE]
    /\ UIInit

\* the handler ends without an outbound call
Answer(r, in, out, response) ==
    /\ phase' = [phase EXCEPT ![r] = "done"]
    /\ inp' = [inp EXCEPT ![r] = in]
    /\ outcome' = [outcome EXCEPT ![r] = out]
    /\ resp' = [resp EXCEPT ![r] = response]
    /\ UNCHANGED <<calls, elapsed, aborted, closed, uiVars>>

\* variant: the service keeps the message in a field of the singleton, so
\* a call issued while another one is pending carries that one's message
Dispatch_SharedMessage(r, in, call) ==
    LET others == {o \in DOMAIN phase \ {r} : phase[o] = "pending"}
        sent == IF others = {}
                THEN call
                ELSE [call EXCEPT !.message =
                        calls[CHOOSE o \in others : TRUE][1].message]
    IN  /\ phase' = [phase EXCEPT ![r] = "pending"]
        /\ inp' = [inp EXCEPT ![r] = in]
        /\ calls' = [calls EXCEPT ![r] = Append(@, sent)]
        /\ elapsed' = [elapsed EXCEPT ![r] = 0]
        /\ UNCHANGED <<aborted, outcome, resp, closed, uiVars>>

\* the handler issues the outbound call and awaits it
Dispatch(r, in, call) ==
    /\ phase' = [phase EXCEPT ![r] = "pending"]
    /\ inp' = [inp EXCEPT ![r] = in]
    /\ calls' = [calls EXCEPT ![r] = Append(@, call)]
    /\ elapsed' = [elapsed EXCEPT ![r] = 0]
    /\ UNCHANGED <<aborted, outcome, resp, closed, uiVars>>

\* variant: the gateway itself refuses database queries of employees
chatDatabase_RoleGate(r) ==
    /\ phase[r] = "idle"
    /\ \E auth \in AuthHeaders, message \in Messages, role \in Roles :
         LET in == [NoInput EXCEPT !.route = "chat/database", !.auth = auth,
                                   !.message = message, !.user_role = role]
             gate == TextGate(auth, message)
         IN  IF gate.kind # "none"
             THEN Answer(r, in, NoOutcome,
                         ErrorResponse(ControllerCatch(gate)))
             ELSE IF role = "employee"
             THEN Answer(r, in, NoOutcome,
                         ErrorResponse(HttpException("Access denied", 403)))
             ELSE Dispatch(r, in, sendToAgentRequest(message, role))

\* POST /chat/database
chatDatabase(r) ==
    /\ phase[r] = "idle"
    /\ \E auth \in AuthHeaders, message \in Messages, role \in Roles :
         LET in == [NoInput EXCEPT !.route = "chat/database", !.auth = auth,
                                   !.message = message, !.user_role = role]
             gate == TextGate(auth, message)
         IN  IF gate.kind # "none"
             THEN Answer(r, in, NoOutcome,
                         ErrorResponse(ControllerCatch(gate)))
             ELSE Dispatch(r, in, sendToAgentRequest(message, role))

\* variant: the message is forwarded as trimmed for the validation
chatRag_Trimmed(r) ==
    /\ phase[r] = "idle"
    /\ \E auth \in AuthHeaders, message \in Messages, role \in Roles :
         LET in == [NoInput EXCEPT !.route = "chat/rag", !.auth = auth,
                                   !.message = message, !.user_role = role]
             gate == TextGate(auth, message)
         IN  IF gate.kind # "none"
             THEN Answer(r, in, NoOutcome,
                         ErrorResponse(ControllerCatch(gate)))
             ELSE Dispatch(r, in, sendToRagRequest(Str(Trim(message.s))))

\* POST /chat/rag
chatRag(r) ==
    /\ phase[r] = "idle"
    /\ \E auth \in AuthHeaders, message \in Messages, role \in Roles :
         LET in == [NoInput EXCEPT !.route = "chat/rag", !.auth = auth,
                                   !.message = message, !.user_role = role]
             gate == TextGate(auth, message)
         IN  IF gate.kind # "none"
             THEN Answer(r, in, NoOutcome,
                         ErrorResponse(ControllerCatch(gate)))
             ELSE Dispatch(r, in, sendToRagRequest(message))

\* POST /chat/smart
chatSmart(r) ==
    /\ phase[r] = "idle"
    /\ \E auth \in AuthHeaders, message \in Messages, role \in Roles :
         LET in == [NoInput EXCEPT !.route = "chat/smart", !.auth = auth,
                                   !.message = message, !.user_role = role]
             gate == TextGate(auth, message)
         IN  IF gate.kind # "none"
             THEN Answer(r, in, NoOutcome,
                         ErrorResponse(ControllerCatch(gate)))
             ELSE Dispatch(r, in, sendToSmartAgentRequest(message, role))

\* POST /chat/ocr
processOCR(r) ==
    /\ phase[r] = "idle"
    /\ \E auth \in AuthHeaders, file \in Files :
         LET in == [NoInput EXCEPT !.route = "chat/ocr", !.auth = auth,
                                   !.file = file]
             gate == OCRGate(auth, file)
         IN  IF gate.kind # "none"
             THEN Answer(r, in, NoOutcome,
                         ErrorResponse(ControllerCatch(gate)))
             ELSE IF BufferEmpty(file.bufferLength)
             THEN Answer(r, in, LocalOutcome,
                         ErrorResponse(ControllerCatch(ServiceCatch("chat/ocr",
                             JsError("File buffer is empty or invalid",
                                     "none")))))
             ELSE Dispatch(r, in, sendToOCRAgentRequest(file))

\* GET /chat/health
healthCheck(r) ==
    /\ phase[r] = "idle"
    /\ Dispatch(r, [NoInput EXCEPT !.route = "chat/health"],
                healthCheckRequest)

\* POST /documents/query
documentsQueryDocuments(r) ==
    /\ phase[r] = "idle"
    /\ \E auth \in AuthHeaders, question \in Questions,
          config \in ModelConfigs :
         LET in == [NoInput EXCEPT !.route = "documents/query",
                                   !.auth = auth, !.question = question,
                                   !.model_configuration = config]
             gate == QuestionGate(auth, question)
         IN  IF gate.kind # "none"
             THEN Answer(r, in, NoOutcome,
                         ErrorResponse(ControllerCatch(gate)))
             ELSE Dispatch(r, in, documentsQueryRequest(question, config))

\* POST /documents/load
documentsLoadDocuments(r) ==
    /\ phase[r] = "idle"
    /\ \E auth \in AuthHeaders, config \in ModelConfigs :
         LET in == [NoInput EXCEPT !.route = "documents/load",
                                   !.auth = auth,
                                   !.model_configuration = config]
             gate == AuthGate(auth)
         IN  IF gate.kind # "none"
             THEN Answer(r, in, NoOutcome,
                         ErrorResponse(ControllerCatch(gate)))
             ELSE Dispatch(r, in, documentsLoadRequest(config))

\* GET /documents/status
documentsGetDocumentStatus(r) ==
    /\ phase[r] = "idle"
    /\ \E auth \in AuthHeaders :
         LET in == [NoInput EXCEPT !.route = "documents/status",
                                   !.auth = auth]
             gate == AuthGate(auth)
         IN  IF gate.kind # "none"
             THEN Answer(r, in, NoOutcome,
                         ErrorResponse(ControllerCatch(gate)))
             ELSE Dispatch(r, in, getDocumentStatusRequest)

\* GET /documents/models
documentsGetAvailableModels(r) ==
    /\ phase[r] = "idle"
    /\ \E auth \in AuthHeaders :
         LET in == [NoInput EXCEPT !.route = "documents/models",
                                   !.auth = auth]
             gate == AuthGate(auth)
         IN  IF gate.kind # "none"
             THEN Answer(r, in, NoOutcome,
                         ErrorResponse(ControllerCatch(gate)))
             ELSE Dispatch(r, in, documentsModelsRequest)

\* POST /agent/query : no Authorization header is read
agentQueryDocuments(r) ==
    /\ phase[r] = "idle"
    /\ \E auth \in AuthHeaders, question \in Questions,
          config \in ModelConfigs :
         Dispatch(r, [NoInput EXCEPT !.route = "agent/query", !.auth = auth,
                                     !.question = question,
                                     !.model_configuration = config],
                  agentQueryRequest(question, config))

\* GET /agent/models : no Authorization header is read
agentGetAvailableModels(r) ==
    /\ phase[r] = "idle"
    /\ \E auth \in AuthHeaders :
         Dispatch(r, [NoInput EXCEPT !.route = "agent/models",
                                     !.auth = auth],
                  agentModelsRequest)

\* the timeout of the pending call, 0 when it has none
PendingTimeout(r) == calls[r][Len(calls[r])].timeout

TimerExpired(r) == PendingTimeout(r) > 0 /\ elapsed[r] >= PendingTimeout(r)

\* time passes while the call is pending
Tick(r) ==
    /\ phase[r] = "pending"
    /\ ~ TimerExpired(r)
    /\ elapsed[r] < MaxWaitMs
    /\ elapsed' = [elapsed EXCEPT ![r] = @ + TickMs]
    /\ UNCHANGED <<phase, inp, calls, aborted, outcome, resp, closed, uiVars>>

\* the downstream answers 2xx; the handler resumes and returns
DownstreamReply(r) ==
    /\ phase[r] = "pending"
    /\ ~ TimerExpired(r)
    /\ \E data \in Replies(inp[r].route) :
         /\ outcome' = [outcome EXCEPT ![r] = ReplyOutcome(data)]
         /\ resp' = [resp EXCEPT ![r] = OnReply(inp[r].route, data)]
    /\ phase' = [phase EXCEPT ![r] = "done"]
    /\ UNCHANGED <<inp, calls, elapsed, aborted, closed, uiVars>>

\* the call fails: connection-level failure or non-2xx reply; on the
\* routes that call with fetch also the end of the body stream after a
\* 2xx head (BODY_TERMINATED)
DownstreamFailure(r) ==
    /\ phase[r] = "pending"
    /\ ~ TimerExpired(r)
    /\ \E code \in FailureCodes \cup {"BODY_TERMINATED"} :
         /\ code = "BODY_TERMINATED"
              => inp[r].route \in {"agent/query", "agent/models"}
         /\ outcome' = [outcome EXCEPT ![r] = ErrorOutcome(code)]
         /\ resp' = [resp EXCEPT ![r] = OnError(inp[r].route, code)]
    /\ phase' = [phase EXCEPT ![r] = "done"]
    /\ UNCHANGED <<inp, calls, elapsed, aborted, closed, uiVars>>

\* the timeout of the call fires: axios aborts the request and rejects
\* with code ECONNABORTED
AxiosTimeout(r) ==
    /\ phase[r] = "pending"
    /\ TimerExpired(r)
    /\ aborted' = [aborted EXCEPT ![r] = TRUE]
    /\ outcome' = [outcome EXCEPT ![r] = ErrorOutcome("ECONNABORTED")]
    /\ resp' = [resp EXCEPT ![r] = OnError(inp[r].route, "ECONNABORTED")]
    /\ phase' = [phase EXCEPT ![r] = "done"]
    /\ UNCHANGED <<inp, calls, elapsed, closed, uiVars>>

\* the response has been sent; nothing of the request is kept
Complete(r) ==
    /\ phase[r] = "done"
    /\ phase' = [phase EXCEPT ![r] = "idle"]
    /\ inp' = [inp EXCEPT ![r] = NoInput]
    /\ calls' = [calls EXCEPT ![r] = <<>>]
    /\ elapsed' = [elapsed EXCEPT ![r] = 0]
    /\ aborted' = [aborted EXCEPT ![r] = FALSE]
    /\ outcome' = [outcome EXCEPT ![r] = NoOutcome]
    /\ resp' = [resp EXCEPT ![r] = NoResponse]
    /\ closed' = [closed EXCEPT ![r] = FALSE]
    /\ UNCHANGED uiVars

\* the caller closes its connection while the handler awaits the
\* downstream: no handler reads the request's close event and no call is
\* issued with an abort signal, so the pending call and the handler go on
CallerDisconnect(r) ==
    /\ phase[r] = "pending"
    /\ ~ closed[r]
    /\ closed' = [closed EXCEPT ![r] = TRUE]
    /\ UNCHANGED <<phase, inp, calls, elapsed, aborted, outcome, resp, uiVars>>

Next ==
    \E r \in Slots :
        \/ chatDatabase(r)
        \/ chatRag(r)
        \/ chatSmart(r)
        \/ processOCR(r)
        \/ healthCheck(r)
        \/ documentsQueryDocuments(r)
        \/ documentsLoadDocuments(r)
        \/ documentsGetDocumentStatus(r)
        \/ documentsGetAvailableModels(r)
        \/ agentQueryDocuments(r)
        \/ agentGetAvailableModels(r)
        \/ Tick(r)
        \/ DownstreamReply(r)
        \/ DownstreamFailure(r)
        \/ AxiosTimeout(r)
        \/ CallerDisconnect(r)
        \/ Complete(r)

Spec == Init /\ [][Next]_vars

\* the event loop runs the timers: time passes and an expired timeout fires
LiveSpec ==
    /\ Spec
    /\ \A r \in Slots : WF_vars(Tick(r)) /\ WF_vars(AxiosTimeout(r))

\* the chat UI on its own; the gateway is seen through what the UI's
\* requests settle with
UISpec == Init /\ [][UINext]_vars

(***************************************************************************)
(* Two requests in flight at once on the routes that take a role           *)
(***************************************************************************)
PairSlots == {"p1", "p2"}

TwinInit ==
    /\ phase = [r \in PairSlots |-> "idle"]
    /\ inp = [r \in PairSlots |-> NoInput]
    /\ calls = [r \in PairSlots |-> <<>>]
    /\ elapsed = [r \in PairSlots |-> 0]
    /\ aborted = [r \in PairSlots |-> FALSE]
    /\ outcome = [r \in PairSlots |-> NoOutcome]
    /\ resp = [r \in PairSlots |-> NoResponse]
    /\ closed = [r \in PairSlots |-> FALSE]
    /\ UIInit

\* the two requests name the same route and carry the same header and
\* message; their user_role is free
SameButRole(in1, in2) ==
    [in1 EXCEPT !.user_role = "undefined"]
        = [in2 EXCEPT !.user_role = "undefined"]

\* a request arrives on /chat/database or /chat/smart; while another
\* request is being handled it is that request with any user_role
TwinArrival(r) ==
    /\ chatDatabase(r) \/ chatSmart(r)
    /\ \A o \in PairSlots \ {r} :
         phase[o] # "idle" => SameButRole(inp'[r], inp[o])

TwinNext ==
    \E r \in PairSlots :
        \/ TwinArrival(r)
        \/ Tick(r)
        \/ DownstreamReply(r)
        \/ DownstreamFailure(r)
        \/ AxiosTimeout(r)
        \/ Complete(r)

TwinSpec == TwinInit /\ [][TwinNext]_vars

(***************************************************************************)
(* Two unrelated requests handled concurrently on the chat routes          *)
(***************************************************************************)
\* the inputs of the concurrent requests
ConcInput(in) ==
    /\ in.auth \in
         {Undefined, Str(<<"B", "e", "a", "r", "e", "r", " ", "t">>)}
    /\ in.message \in
         {Undefined, Str(<<>>), Str(<<"h", "i">>),
          Str(<<" ", "h", " ", "i", " ">>)}
    /\ in.user_role \in {"undefined", "admin"}
    /\ in.file \in
         {NoFile,
          [present |-> TRUE, mimetype |-> "application/pdf", size |-> 1,
           bufferLength |-> 1],
          [present |-> TRUE, mimetype |-> "image/png", size |-> 0,
           bufferLength |-> 0],
          [present |-> TRUE, mimetype |-> "text/plain", size |-> 1,
           bufferLength |-> 1]}

\* a request arrives on one of the chat routes, whatever the other request
\* is and whatever state it is in
ConcArrival(r) ==
    /\ chatDatabase(r) \/ chatRag(r) \/ chatSmart(r) \/ processOCR(r)
    /\ ConcInput(inp'[r])

ConcNext ==
    \E r \in PairSlots :
        \/ ConcArrival(r)
        \/ Tick(r)
        \/ DownstreamReply(r)
        \/ DownstreamFailure(r)
        \/ AxiosTimeout(r)
        \/ Complete(r)

ConcSpec == TwinInit /\ [][ConcNext]_vars

(***************************************************************************)
(* Vocabulary of the properties, stated on the raw inputs                  *)
(***************************************************************************)
\* the header is missing, empty, or does not begin with the 7 characters
\* of "Bearer "
LacksBearer(auth) ==
    \/ auth.t = "undefined"
    \/ Len(auth.s) = 0
    \/ Len(auth.s) < 7
    \/ <<auth.s[1], auth.s[2], auth.s[3], auth.s[4], auth.s[5], auth.s[6],
         auth.s[7]>> # <<"B", "e", "a", "r", "e", "r", " ">>

\* the whitespace characters of a text: blanks, tabs, line breaks and
\* the other spacing characters of Unicode
SpacingCharacters ==
    {" ", "\t", "\n", "\r", "\f", "U+000B", "U+00A0", "U+FEFF", "U+1680",
     "U+2028", "U+2029", "U+202F", "U+205F", "U+3000"}
    \cup {"U+2000", "U+2001", "U+2002", "U+2003", "U+2004", "U+2005",
          "U+2006", "U+2007", "U+2008", "U+2009", "U+200A"}

\* the message is absent, empty, or made of whitespace only
Blank(message) ==
    \/ message.t = "undefined"
    \/ /\ message.t = "string"
       /\ \A i \in 1..Len(message.s) : message.s[i] \in SpacingCharacters

\* the message is a string with at least one non-whitespace character
HasText(message) ==
    /\ message.t = "string"
    /\ \E i \in 1..Len(message.s) : message.s[i] \notin SpacingCharacters

\* mime types of the formats pdf, png and jpeg (image/jpg is the alias of
\* image/jpeg that the controller lists)
FormatMimeTypes ==
    {"application/pdf", "image/png", "image/jpeg", "image/jpg"}

TenMiB == 10485760

\* the size the validator compares, 0 for a file without a size
SizeOf(file) == IF file.size = NoNumber THEN 0 ELSE file.size

Handled(r) == phase[r] # "idle"
Done(r) == phase[r] = "done"

(***************************************************************************)
(* C1                                                                      *)
(***************************************************************************)
\* C1: on each of the four chat routes a request whose Authorization header
\* is missing, empty or does not start with "Bearer " is answered 401 and
\* no outbound call is ever issued for it, whatever its body or file.
C1_Unauthenticated401 ==
    \A r \in Slots :
        (Handled(r) /\ inp[r].route \in ChatRoutes /\ LacksBearer(inp[r].auth))
        => /\ Done(r)
           /\ resp[r].status = 401
           /\ resp[r].message = "Unauthorized"
           /\ calls[r] = <<>>

\* a file upload whose header is "Bearer" without the space was answered 401
C1_Witness ==
    \E r \in Slots :
        /\ Done(r)
        /\ inp[r].route = "chat/ocr"
        /\ inp[r].auth = Str(<<"B", "e", "a", "r", "e", "r">>)
        /\ inp[r].file.present
        /\ inp[r].file.mimetype = "image/png"
        /\ resp[r].status = 401
        /\ calls[r] = <<>>

(***************************************************************************)
(* C2                                                                      *)
(***************************************************************************)
\* C2: on each text route with a valid Bearer header, an absent, empty or
\* whitespace-only message is answered 400 without an outbound call, and a
\* message with a non-whitespace character is never answered 400.
C2_BlankMessage400 ==
    \A r \in Slots :
        (Handled(r) /\ inp[r].route \in TextRoutes
                    /\ ~ LacksBearer(inp[r].auth))
        => /\ Blank(inp[r].message)
              => /\ Done(r)
                 /\ resp[r].status = 400
                 /\ calls[r] = <<>>
           /\ HasText(inp[r].message) => resp[r].status # 400

\* a whitespace-only message with a valid header was answered 400
C2_Witness ==
    \E r \in Slots :
        /\ Done(r)
        /\ inp[r].route = "chat/smart"
        /\ ~ LacksBearer(inp[r].auth)
        /\ inp[r].message = Str(<<"\t", " ", "\n">>)
        /\ resp[r].status = 400
        /\ calls[r] = <<>>

(***************************************************************************)
(* C3                                                                      *)
(***************************************************************************)
\* a payload of the upload route has been relayed to the OCR endpoint
Relayed(r) == inp[r].route = "chat/ocr" /\ calls[r] # <<>>

\* C3 as stated: every /chat/ocr request whose file has a mime type outside
\* the allowed formats (or no mime type) is answered 400 and is never
\* relayed, and every relayed payload has an allowed mime type.
C3_AsStated ==
    \A r \in Slots :
        /\ (Handled(r) /\ inp[r].route = "chat/ocr" /\ inp[r].file.present
                       /\ inp[r].file.mimetype \notin FormatMimeTypes)
           => /\ Done(r)
              /\ resp[r].status = 400
              /\ calls[r] = <<>>
        /\ Relayed(r) => inp[r].file.mimetype \in FormatMimeTypes

\* C3 (amended): a /chat/ocr request whose file has a mime type other than
\* application/pdf, image/png, image/jpeg, image/jpg (or none) is never
\* relayed; it is answered 400 "Invalid file type..." when its header
\* starts with "Bearer " and 401 otherwise; every relayed payload has one
\* of the four mime types.
C3_InvalidTypeNeverRelayed ==
    \A r \in Slots :
        /\ (Handled(r) /\ inp[r].route = "chat/ocr" /\ inp[r].file.present
                       /\ inp[r].file.mimetype \notin FormatMimeTypes)
           => /\ Done(r)
              /\ calls[r] = <<>>
              /\ IF LacksBearer(inp[r].auth)
                 THEN resp[r].status = 401
                 ELSE /\ resp[r].status = 400
                      /\ resp[r].message =
                         "Invalid file type. Only PDF, PNG, JPG, JPEG are allowed"
        /\ Relayed(r)
           => /\ inp[r].file.mimetype \in FormatMimeTypes
              /\ calls[r][1].mimetype = inp[r].file.mimetype

\* an authenticated upload of a gif was answered 400 without a call
C3_Witness ==
    \E r \in Slots :
        /\ Done(r)
        /\ inp[r].route = "chat/ocr"
        /\ ~ LacksBearer(inp[r].auth)
        /\ inp[r].file.present
        /\ inp[r].file.mimetype = "image/gif"
        /\ inp[r].file.bufferLength = 1
        /\ resp[r].status = 400
        /\ calls[r] = <<>>

(***************************************************************************)
(* C4                                                                      *)
(***************************************************************************)
TooLargeText == "File too large. Maximum size is 10MB"

\* C4 as stated: every /chat/ocr request whose file is larger than 10 MiB
\* is answered 400 "File too large. Maximum size is 10MB" without a
\* downstream call; a file of exactly 10 MiB is not rejected for size;
\* every relayed payload is at most 10 MiB.
C4_AsStated ==
    \A r \in Slots :
        /\ (Handled(r) /\ inp[r].route = "chat/ocr" /\ inp[r].file.present
                       /\ SizeOf(inp[r].file) > TenMiB)
           => /\ Done(r)
              /\ resp[r].status = 400
              /\ resp[r].message = TooLargeText
              /\ calls[r] = <<>>
        /\ (Handled(r) /\ inp[r].route = "chat/ocr" /\ inp[r].file.present
                       /\ SizeOf(inp[r].file) = TenMiB)
           => resp[r].message # TooLargeText
        /\ Relayed(r) => calls[r][1].bytes <= TenMiB

\* C4 (amended): a /chat/ocr request whose file is larger than 10 MiB never
\* reaches the downstream; it is answered 400 "File too large. Maximum size
\* is 10MB" when its header starts with "Bearer " and its mime type is
\* allowed (401, or 400 with the invalid-type message, otherwise); a file of
\* exactly 10 MiB is not rejected for size; every relayed payload is at most
\* 10 MiB.
C4_TooLargeNeverRelayed ==
    \A r \in Slots :
        /\ (Handled(r) /\ inp[r].route = "chat/ocr" /\ inp[r].file.present
                       /\ SizeOf(inp[r].file) > TenMiB)
           => /\ Done(r)
              /\ calls[r] = <<>>
              /\ resp[r].status \in {400, 401}
              /\ (~ LacksBearer(inp[r].auth)
                  /\ inp[r].file.mimetype \in FormatMimeTypes)
                 => /\ resp[r].status = 400
                    /\ resp[r].message = TooLargeText
        /\ (Handled(r) /\ inp[r].route = "chat/ocr" /\ inp[r].file.present
                       /\ SizeOf(inp[r].file) = TenMiB)
           => /\ resp[r].message # TooLargeText
              /\ (~ LacksBearer(inp[r].auth)
                  /\ inp[r].file.mimetype \in FormatMimeTypes
                  /\ inp[r].file.bufferLength = TenMiB)
                 => calls[r] # <<>>
        /\ Relayed(r)
           => /\ calls[r][1].bytes <= TenMiB
              /\ SizeOf(inp[r].file) <= TenMiB

\* an authenticated 12 MiB pdf was answered 400 "File too large"
C4_Witness ==
    \E r \in Slots :
        /\ Done(r)
        /\ inp[r].route = "chat/ocr"
        /\ ~ LacksBearer(inp[r].auth)
        /\ inp[r].file.mimetype = "application/pdf"
        /\ inp[r].file.size = 12 * 1024 * 1024
        /\ inp[r].file.bufferLength = 12 * 1024 * 1024
        /\ resp[r].status = 400
        /\ resp[r].message = TooLargeText
        /\ calls[r] = <<>>

(***************************************************************************)
(* C5                                                                      *)
(***************************************************************************)
\* the capability an error message names
CapabilityNamed(message) ==
    CASE message = "Agent service is unavailable" -> "chat/database"
      [] message = "RAG service is unavailable" -> "chat/rag"
      [] message = "Smart agent service is unavailable" -> "chat/smart"
      [] message = "OCR service is unavailable" -> "chat/ocr"
      [] OTHER -> "none"

\* the downstream call of the request ended with the error code
FailedWith(r, code) ==
    /\ Done(r)
    /\ calls[r] # <<>>
    /\ outcome[r].kind = "error"
    /\ outcome[r].code = code

\* C5: on the four chat routes a refused connection is answered 503 with a
\* message naming the capability, an exceeded timeout is answered 408, and
\* the controller returns the status and message the service chose.
C5_RefusedAndTimeout ==
    \A r \in Slots :
        inp[r].route \in ChatRoutes
        => /\ FailedWith(r, "ECONNREFUSED")
              => /\ resp[r].status = 503
                 /\ CapabilityNamed(resp[r].message) = inp[r].route
           /\ FailedWith(r, "ECONNABORTED") => resp[r].status = 408
           /\ (Done(r) /\ outcome[r].kind = "error")
              => resp[r] = ErrorResponse(ServiceCatch(inp[r].route,
                               JsError(AxiosErrorMessage(outcome[r].code), outcome[r].code)))

\* a refused retrieval call was answered 503 "RAG service is unavailable"
C5_Witness ==
    \E r \in Slots :
        /\ inp[r].route = "chat/rag"
        /\ FailedWith(r, "ECONNREFUSED")
        /\ resp[r].status = 503
        /\ resp[r].message = "RAG service is unavailable"

(***************************************************************************)
(* C6                                                                      *)
(***************************************************************************)
\* error codes of a downstream that cannot be reached
UnreachableCodes ==
    {"ECONNREFUSED", "ENOTFOUND", "EHOSTUNREACH", "ENETUNREACH"}

\* C6: a downstream call that fails because the downstream is unreachable
\* (any connection-level failure, not only a refused connection) is
\* answered 503, not 500.
C6_UnreachableIs503 ==
    \A r \in Slots :
        (inp[r].route \in ChatRoutes /\ Done(r) /\ calls[r] # <<>>
            /\ outcome[r].kind = "error"
            /\ outcome[r].code \in UnreachableCodes)
        => resp[r].status = 503

(***************************************************************************)
(* C7                                                                      *)
(***************************************************************************)
\* the downstream answered 2xx with a body that is not an object or lacks
\* success, timestamp or the response text (on the upload route the text
\* fields are extracted_text and analysis)
MalformedReply(r) ==
    /\ outcome[r].kind = "reply"
    /\ \/ outcome[r].data.shape # "object"
       \/ outcome[r].data.success = "undefined"
       \/ outcome[r].data.timestamp = "undefined"
       \/ /\ inp[r].route \in TextRoutes
          /\ outcome[r].data.response = "undefined"
       \/ /\ inp[r].route = "chat/ocr"
          /\ outcome[r].data.extracted_text = "undefined"
          /\ outcome[r].data.analysis = "undefined"

\* C7: every downstream failure that is neither a refused connection nor a
\* timeout, a malformed 2xx reply included, is answered 500 and never with
\* a success status.
C7_OtherFailuresAre500 ==
    \A r \in Slots :
        (inp[r].route \in ChatRoutes /\ Done(r) /\ calls[r] # <<>>)
        => /\ (outcome[r].kind = "error"
               /\ outcome[r].code \notin {"ECONNREFUSED", "ECONNABORTED"})
              => resp[r].status = 500
           /\ MalformedReply(r) => resp[r].status = 500

(***************************************************************************)
(* C8                                                                      *)
(***************************************************************************)
\* the request passes the gateway's validation: Bearer header and, on the
\* text routes, a message with text; on the upload route, a file of an
\* allowed type of at most 10 MiB
PassesValidation(in) ==
    /\ ~ LacksBearer(in.auth)
    /\ IF in.route = "chat/ocr"
       THEN /\ in.file.present
            /\ in.file.mimetype \in FormatMimeTypes
            /\ SizeOf(in.file) <= TenMiB
       ELSE HasText(in.message)

\* the uploaded file has no buffer or a buffer of length 0
NoBytes(file) == file.bufferLength = NoNumber \/ file.bufferLength = 0

\* C8 as stated: exactly one outbound call for each chat request that
\* passes validation, none for each that fails it, never two or more.
C8_AsStated ==
    \A r \in Slots :
        (Handled(r) /\ inp[r].route \in ChatRoutes)
        => Len(calls[r]) = IF PassesValidation(inp[r]) THEN 1 ELSE 0

\* C8 (amended): the gateway issues at most one outbound call for each
\* inbound chat request: exactly one for a request that passes validation,
\* except a validated upload whose buffer is missing or empty, for which it
\* issues none and answers 500; none for a request that fails validation.
C8_OneCallPerValidRequest ==
    \A r \in Slots :
        (Handled(r) /\ inp[r].route \in ChatRoutes)
        => /\ Len(calls[r]) <= 1
           /\ Len(calls[r]) =
                IF /\ PassesValidation(inp[r])
                   /\ ~ (inp[r].route = "chat/ocr" /\ NoBytes(inp[r].file))
                THEN 1 ELSE 0
           /\ (/\ PassesValidation(inp[r])
               /\ inp[r].route = "chat/ocr"
               /\ NoBytes(inp[r].file))
              => Done(r) /\ resp[r].status = 500

\* a validated smart request was answered after exactly one call
C8_Witness ==
    \E r \in Slots :
        /\ Done(r)
        /\ inp[r].route = "chat/smart"
        /\ PassesValidation(inp[r])
        /\ outcome[r].kind = "reply"
        /\ outcome[r].data.agent_used = "both"
        /\ Len(calls[r]) = 1
        /\ resp[r].status = 201

(***************************************************************************)
(* C9                                                                      *)
(***************************************************************************)
\* the downstream target of each route
TargetOf(route) ==
    CASE route = "chat/database" -> "http://localhost:8000/chat"
      [] route = "chat/rag" -> "http://localhost:8000/rag"
      [] route = "chat/smart" -> "http://localhost:8000/smart"
      [] route = "chat/ocr" -> "http://localhost:8000/ocr"
      [] route = "chat/health" -> "http://localhost:8000/health"
      [] route \in {"documents/query", "agent/query"} ->
            "http://localhost:8000/documents/query"
      [] route = "documents/load" -> "http://localhost:8000/documents/load"
      [] route = "documents/status" ->
            "http://localhost:8000/documents/status"
      [] route \in {"documents/models", "agent/models"} ->
            "http://localhost:8000/documents/models"

\* the outbound call of the request ended without a 2xx reply
CallFailed(r) == Done(r) /\ calls[r] # <<>> /\ outcome[r].kind = "error"

\* the response tells the caller that the request failed
ReportsFailure(response) ==
    \/ response.status >= 400
    \/ response.body.success = "false"
    \/ response.body.status = "unhealthy"

\* the call is never re-issued and never goes to another agent
NoRetryNoOtherAgent(r) ==
    /\ Len(calls[r]) <= 1
    /\ \A i \in 1..Len(calls[r]) : calls[r][i].url = TargetOf(inp[r].route)

\* C9 as stated: no retry, no other agent, no locally produced answer; on
\* every route that dispatches downstream a failed call yields a failed
\* response, never one reporting success.
C9_AsStated ==
    \A r \in Slots :
        /\ NoRetryNoOtherAgent(r)
        /\ CallFailed(r)
           => /\ ReportsFailure(resp[r])
              /\ resp[r].body.success # "true"

\* C9 (amended): after a downstream call fails the gateway never re-issues
\* it and never calls another agent; on every dispatching route except
\* GET /agent/models the failed call yields a response that reports failure
\* (an error status, or success false / status unhealthy in the body) and
\* never success; GET /agent/models answers 200 with success true and the
\* built-in fallback list.
C9_NoRecoveryExceptModels ==
    \A r \in Slots :
        /\ NoRetryNoOtherAgent(r)
        /\ (CallFailed(r) /\ inp[r].route # "agent/models")
           => /\ ReportsFailure(resp[r])
              /\ resp[r].body.success # "true"
        /\ (CallFailed(r) /\ inp[r].route = "agent/models")
           => /\ resp[r].status = 200
              /\ resp[r].body.success = "true"
              /\ resp[r].body.models = "FALLBACK_MODELS"

\* a smart call that was reset ended in a 500 after a single call
C9_Witness ==
    \E r \in Slots :
        /\ inp[r].route = "chat/smart"
        /\ CallFailed(r)
        /\ outcome[r].code = "ECONNRESET"
        /\ Len(calls[r]) = 1
        /\ resp[r].status = 500
        /\ resp[r].message = "Failed to communicate with smart agent"

(***************************************************************************)
(* C10                                                                     *)
(***************************************************************************)
\* the timeout budget of each chat capability, in milliseconds
Budget(route) == IF route = "chat/ocr" THEN 120000 ELSE 30000

\* C10: every validated chat request eventually receives a response even
\* if the downstream never replies: the wait is bounded by the budget of
\* the capability, and when the budget is exceeded the call is cancelled
\* and the caller is answered with the timeout failure.
C10_BoundedWait ==
    /\ [](\A r \in Slots :
            inp[r].route \in ChatRoutes
            => /\ phase[r] = "pending"
                  => elapsed[r] < Budget(inp[r].route) + TickMs
               /\ FailedWith(r, "ECONNABORTED")
                  => /\ aborted[r]
                     /\ elapsed[r] >= Budget(inp[r].route)
                     /\ resp[r].status = 408)
    /\ \A r \in Slots :
         (phase[r] = "pending" /\ inp[r].route \in ChatRoutes) ~> Done(r)

\* an upload that was never answered downstream timed out after its budget
C10_Witness ==
    \E r \in Slots :
        /\ inp[r].route = "chat/ocr"
        /\ FailedWith(r, "ECONNABORTED")
        /\ aborted[r]
        /\ elapsed[r] >= 120000
        /\ resp[r].status = 408
        /\ resp[r].message = "OCR service timeout"

(***************************************************************************)
(* C11                                                                     *)
(***************************************************************************)
\* C11: GET /chat/health always completes: the health probe carries a
\* timeout of its own, so a pending probe is bounded by it and the route
\* eventually answers even if the downstream never does.
C11_HealthCompletes ==
    /\ [](\A r \in Slots :
            (inp[r].route = "chat/health" /\ phase[r] = "pending")
            => /\ calls[r][Len(calls[r])].timeout > 0
               /\ elapsed[r] < calls[r][Len(calls[r])].timeout + TickMs)
    /\ \A r \in Slots :
         (phase[r] = "pending" /\ inp[r].route = "chat/health") ~> Done(r)

(***************************************************************************)
(* C12                                                                     *)
(***************************************************************************)
\* the health probe of the request has ended
HealthDone(r) == inp[r].route = "chat/health" /\ Done(r) /\ calls[r] # <<>>

\* the fixed body of a failed probe
UnhealthyBody(body) ==
    /\ body.status = "unhealthy"
    /\ body.nestjs = "up"
    /\ body.python_agent = "down"
    /\ \A f \in Fields \ {"shape", "status", "nestjs", "python_agent"} :
         body[f] = "undefined"

\* C12 as stated: GET /chat/health never answers with an error status, and
\* whenever the probe fails (any error of the call, a non-2xx status, or a
\* 2xx reply whose body is unreadable: JSON null or text that is not JSON)
\* the answer is 200 with status unhealthy, nestjs up, python_agent down.
C12_AsStated ==
    \A r \in Slots :
        HealthDone(r)
        => /\ resp[r].status = 200
           /\ (\/ outcome[r].kind = "error"
               \/ /\ outcome[r].kind = "reply"
                  /\ outcome[r].data.shape \in {"null", "string"})
              => UnhealthyBody(resp[r].body)

\* C12 (amended): GET /chat/health never answers with an error status;
\* whenever the probe call fails (refused or otherwise failed connection,
\* non-2xx status) or its 2xx body is JSON null, the answer is 200 with
\* exactly status unhealthy, nestjs up, python_agent down, the same for
\* every cause; a 2xx reply whose body is text that is not JSON is not a
\* failure: it is answered 200 healthy with python_agent unknown.
C12_FailedProbeIsUnhealthy200 ==
    \A r \in Slots :
        HealthDone(r)
        => /\ resp[r].status = 200
           /\ resp[r].message = ""
           /\ (\/ outcome[r].kind = "error"
               \/ /\ outcome[r].kind = "reply"
                  /\ outcome[r].data.shape = "null")
              => UnhealthyBody(resp[r].body)
           /\ (outcome[r].kind = "reply" /\ outcome[r].data.shape = "string")
              => /\ resp[r].body.status = "healthy"
                 /\ resp[r].body.nestjs = "up"
                 /\ resp[r].body.python_agent = "unknown"

\* a probe answered with a non-2xx status was reported unhealthy with 200
C12_Witness ==
    \E r \in Slots :
        /\ HealthDone(r)
        /\ outcome[r].kind = "error"
        /\ outcome[r].code = "ERR_BAD_RESPONSE"
        /\ resp[r].status = 200
        /\ resp[r].body.status = "unhealthy"
        /\ resp[r].body.python_agent = "down"

(***************************************************************************)
(* C13                                                                     *)
(***************************************************************************)
\* C13: when the caller disconnects while the gateway waits for the
\* downstream reply, the in-flight call is cancelled: in no state has the
\* caller gone away while the downstream call of its request is still
\* outstanding and not cancelled.
C13_DisconnectCancels ==
    \A r \in Slots :
        closed[r] => ~ (phase[r] = "pending" /\ ~ aborted[r])

(***************************************************************************)
(* C14                                                                     *)
(***************************************************************************)
\* the downstream answered the call of the request with a 2xx JSON object
RepliedObject(r) ==
    /\ Done(r)
    /\ calls[r] # <<>>
    /\ outcome[r].kind = "reply"
    /\ outcome[r].data.shape = "object"

SuccessStatus(status) == status >= 200 /\ status <= 299

\* C14: on POST /chat/database a downstream reply is returned loss-free:
\* each of success, response, timestamp and sql_info that the reply carries
\* appears in the gateway's reply with the same value, and the HTTP status
\* is a success status.
C14_DatabaseReplyLossFree ==
    \A r \in Slots :
        (inp[r].route = "chat/database" /\ RepliedObject(r))
        => /\ SuccessStatus(resp[r].status)
           /\ \A f \in {"success", "response", "timestamp", "sql_info"} :
                outcome[r].data[f] # "undefined"
                => resp[r].body[f] = outcome[r].data[f]

\* a reply carrying all four fields was returned with all four
C14_Witness ==
    \E r \in Slots :
        /\ inp[r].route = "chat/database"
        /\ RepliedObject(r)
        /\ outcome[r].data.success = "true"
        /\ outcome[r].data.sql_info = "SQL1"
        /\ resp[r].status = 201
        /\ resp[r].body.success = "true"
        /\ resp[r].body.response = "42 orders"
        /\ resp[r].body.timestamp = "T1"
        /\ resp[r].body.sql_info = "SQL1"

(***************************************************************************)
(* C15                                                                     *)
(***************************************************************************)
\* C15: on POST /chat/smart the gateway's reply carries agent_used,
\* routing_info and whichever of the sql_info and sources blocks the
\* downstream sent, each equal to the downstream's value; a block the
\* downstream did not send is not in the reply; a reply with agent_used
\* "both" and both blocks comes back with both blocks and routing_info.
C15_SmartMetadataCopied ==
    \A r \in Slots :
        (inp[r].route = "chat/smart" /\ RepliedObject(r))
        => /\ SuccessStatus(resp[r].status)
           /\ \A f \in {"agent_used", "routing_info", "sql_info", "sources"} :
                resp[r].body[f] = outcome[r].data[f]
           /\ (/\ outcome[r].data.agent_used = "both"
               /\ outcome[r].data.sql_info \notin {"undefined", "null"}
               /\ outcome[r].data.sources \notin {"undefined", "null"})
              => /\ resp[r].body.sql_info \notin {"undefined", "null"}
                 /\ resp[r].body.sources \notin {"undefined", "null"}
                 /\ resp[r].body.routing_info = outcome[r].data.routing_info

\* a reply of both agents came back with both blocks and the routing block
C15_Witness ==
    \E r \in Slots :
        /\ inp[r].route = "chat/smart"
        /\ RepliedObject(r)
        /\ outcome[r].data.agent_used = "both"
        /\ resp[r].status = 201
        /\ resp[r].body.agent_used = "both"
        /\ resp[r].body.routing_info = "ROUTING1"
        /\ resp[r].body.sql_info = "SQL1"
        /\ resp[r].body.sources = "SOURCES1"

(***************************************************************************)
(* C16                                                                     *)
(***************************************************************************)
\* the fields holding the primary text of a capability's reply
TextFields(route) ==
    IF route = "chat/ocr" THEN {"extracted_text", "analysis"} ELSE {"response"}

\* C16: on the four chat capabilities the downstream's success flag and
\* primary text come back unchanged with an HTTP success status; a 2xx
\* reply whose success is false is answered with success false and the
\* downstream's own text, never with an error status or a flipped flag.
C16_FlagAndTextUnchanged ==
    \A r \in Slots :
        (inp[r].route \in ChatRoutes /\ RepliedObject(r))
        => /\ SuccessStatus(resp[r].status)
           /\ resp[r].body.success = outcome[r].data.success
           /\ \A f \in TextFields(inp[r].route) :
                resp[r].body[f] = outcome[r].data[f]
           /\ outcome[r].data.success = "false"
              => /\ resp[r].status < 400
                 /\ resp[r].body.success = "false"

\* a smart reply with success false came back as success false with its text
C16_Witness ==
    \E r \in Slots :
        /\ inp[r].route = "chat/smart"
        /\ RepliedObject(r)
        /\ outcome[r].data.success = "false"
        /\ resp[r].status = 201
        /\ resp[r].body.success = "false"
        /\ resp[r].body.response = "smart failed"

(***************************************************************************)
(* C17                                                                     *)
(***************************************************************************)
\* the capability-specific metadata fields of each chat reply
MetadataFields(route) ==
    CASE route = "chat/database" -> {"sql_info"}
      [] route = "chat/rag" -> {"sources"}
      [] route = "chat/smart" ->
            {"agent_used", "routing_info", "sql_info", "sources"}
      [] route = "chat/ocr" -> {"recommendations", "alerts"}

\* C17: a metadata field missing from an otherwise well-formed downstream
\* reply never causes an error: the reply comes back with a success status
\* and its success flag, and the missing field is null on the database and
\* rag routes and absent (or null) on the smart and upload routes.
C17_MissingMetadataIsEmpty ==
    \A r \in Slots :
        (inp[r].route \in ChatRoutes /\ RepliedObject(r) /\ ~ MalformedReply(r))
        => \A f \in MetadataFields(inp[r].route) :
             outcome[r].data[f] = "undefined"
             => /\ SuccessStatus(resp[r].status)
                /\ resp[r].body.success = outcome[r].data.success
                /\ IF inp[r].route \in {"chat/database", "chat/rag"}
                   THEN resp[r].body[f] = "null"
                   ELSE resp[r].body[f] \in {"undefined", "null"}

\* a retrieval reply without sources came back with sources null
C17_Witness ==
    \E r \in Slots :
        /\ inp[r].route = "chat/rag"
        /\ RepliedObject(r)
        /\ outcome[r].data.response = "hello"
        /\ outcome[r].data.sources = "undefined"
        /\ resp[r].status = 201
        /\ resp[r].body.response = "hello"
        /\ resp[r].body.sources = "null"

(***************************************************************************)
(* C18                                                                     *)
(***************************************************************************)
\* the outbound request without its forwarded role
WithoutRole(call) == [call EXCEPT !.user_role = "undefined"]

\* C18: the role never influences the gateway's decision: two requests to
\* /chat/database or /chat/smart that differ only in user_role are both
\* rejected with the same response or both relayed to the same target, and
\* their outbound requests differ at most in the forwarded role, which is
\* the role of the request.
C18_RoleDoesNotDecide ==
    \A a \in PairSlots, b \in PairSlots :
        (/\ phase[a] # "idle" /\ phase[b] # "idle"
         /\ inp[a].route \in {"chat/database", "chat/smart"}
         /\ inp[a].route = inp[b].route
         /\ inp[a].auth = inp[b].auth
         /\ inp[a].message = inp[b].message)
        => /\ (calls[a] = <<>>) <=> (calls[b] = <<>>)
           /\ calls[a] = <<>> => resp[a] = resp[b]
           /\ calls[a] # <<>>
              => /\ Len(calls[a]) = Len(calls[b])
                 /\ calls[a][1].url = calls[b][1].url
                 /\ WithoutRole(calls[a][1]) = WithoutRole(calls[b][1])
                 /\ calls[a][1].user_role = inp[a].user_role

\* an employee's and an admin's request with the same message were both
\* relayed to the smart agent, each with its own role
C18_Witness ==
    /\ inp["p1"].route = "chat/smart"
    /\ inp["p2"].route = "chat/smart"
    /\ inp["p1"].message = inp["p2"].message
    /\ inp["p1"].auth = inp["p2"].auth
    /\ inp["p1"].user_role = "employee"
    /\ inp["p2"].user_role = "admin"
    /\ phase["p1"] = "pending"
    /\ phase["p2"] = "pending"
    /\ calls["p1"][1].url = "http://localhost:8000/smart"
    /\ calls["p2"][1].url = "http://localhost:8000/smart"
    /\ calls["p1"][1].user_role = "employee"
    /\ calls["p2"][1].user_role = "admin"

(***************************************************************************)
(* C19                                                                     *)
(***************************************************************************)
RoleNames == {"employee", "manager", "admin"}

\* the request was relayed on a route that forwards the role
RoleForwarded(r) ==
    /\ inp[r].route \in {"chat/database", "chat/smart"}
    /\ calls[r] # <<>>

\* C19 as stated: the role forwarded to the downstream on /chat/database
\* and /chat/smart is always one of employee, manager, admin, and it is
\* employee when the caller omitted the role.
C19_AsStated ==
    \A r \in Slots :
        RoleForwarded(r)
        => /\ calls[r][1].user_role \in RoleNames
           /\ inp[r].user_role = "undefined"
              => calls[r][1].user_role = "employee"

\* C19 (amended): the role forwarded to the downstream on /chat/database
\* and /chat/smart is the user_role of the request, unchanged: it is one of
\* employee, manager, admin exactly when the caller sent one of these, and
\* when the caller omitted the role no role is forwarded; the gateway
\* applies no default.
C19_RoleForwardedUnchanged ==
    \A r \in Slots :
        RoleForwarded(r)
        => /\ calls[r][1].user_role = inp[r].user_role
           /\ calls[r][1].user_role \in RoleNames
              <=> inp[r].user_role \in RoleNames
           /\ inp[r].user_role = "undefined"
              => calls[r][1].user_role = "undefined"

\* a smart request without a role was relayed without a role
C19_Witness ==
    \E r \in Slots :
        /\ inp[r].route = "chat/smart"
        /\ inp[r].user_role = "undefined"
        /\ phase[r] = "pending"
        /\ calls[r][1].url = "http://localhost:8000/smart"
        /\ calls[r][1].user_role = "undefined"

(***************************************************************************)
(* C20                                                                     *)
(***************************************************************************)
\* the descriptions the gateway itself chooses for a failed request
FixedDescriptions ==
    {"Agent service is unavailable", "Agent service timeout",
     "Failed to communicate with agent",
     "RAG service is unavailable", "RAG service timeout",
     "Failed to communicate with RAG agent",
     "Smart agent service is unavailable", "Smart agent service timeout",
     "Failed to communicate with smart agent",
     "OCR service is unavailable", "OCR service timeout",
     "Failed to communicate with OCR agent",
     "Document service is unavailable", "Document service timeout",
     "Failed to communicate with document service",
     "Internal server error"}

\* the downstream call of the request failed, or its reply made the
\* handler fail
DownstreamCallFailed(r) ==
    /\ Done(r)
    /\ calls[r] # <<>>
    /\ \/ outcome[r].kind = "error"
       \/ resp[r].status >= 400

\* C20: every response to a request whose downstream call failed carries
\* only a fixed description chosen by the gateway: the text of the
\* underlying error is in no field of the body, on the chat, documents and
\* agent routes alike.
C20_OnlyFixedDescriptions ==
    \A r \in Slots :
        DownstreamCallFailed(r)
        => /\ resp[r].message \in FixedDescriptions \cup {""}
           /\ resp[r].body.message \in FixedDescriptions \cup {"undefined"}
           /\ resp[r].body.error \in FixedDescriptions \cup {"undefined"}
           /\ resp[r].status >= 400
              => resp[r].body.response \in FixedDescriptions \cup {"undefined"}

(***************************************************************************)
(* C21                                                                     *)
(***************************************************************************)
\* C21: apart from the health probe, no route issues a downstream call for
\* a request whose Authorization header does not start with "Bearer ".
C21_NoCallWithoutBearer ==
    \A r \in Slots :
        (/\ Handled(r)
         /\ inp[r].route # "chat/health"
         /\ LacksBearer(inp[r].auth))
        => calls[r] = <<>>

(***************************************************************************)
(* C22                                                                     *)
(***************************************************************************)
\* C22: every outbound call of a chat capability goes to that capability's
\* own target with its own budget (30 s for database, rag and smart, 120 s
\* for the upload), never to the target of another capability.
C22_OwnTargetOwnBudget ==
    \A r \in Slots :
        inp[r].route \in ChatRoutes
        => \A i \in 1..Len(calls[r]) :
             /\ calls[r][i].url = TargetOf(inp[r].route)
             /\ calls[r][i].url \notin
                  {TargetOf(o) : o \in ChatRoutes \ {inp[r].route}}
             /\ calls[r][i].timeout = Budget(inp[r].route)
             /\ calls[r][i].timeout =
                  IF inp[r].route = "chat/ocr" THEN 120000 ELSE 30000

\* an upload is pending at the OCR target with the 120 s budget
C22_Witness ==
    \E r \in Slots :
        /\ inp[r].route = "chat/ocr"
        /\ phase[r] = "pending"
        /\ Len(calls[r]) = 1
        /\ calls[r][1].url = "http://localhost:8000/ocr"
        /\ calls[r][1].timeout = 120000

(***************************************************************************)
(* C23                                                                     *)
(***************************************************************************)
\* C23: the outbound body carries the message exactly as received, not the
\* trimmed one; it carries the caller's role on /chat/database and
\* /chat/smart and no role on /chat/rag.
C23_OutboundBodyFrame ==
    \A r \in Slots :
        (inp[r].route \in TextRoutes /\ calls[r] # <<>>)
        => /\ calls[r][1].message = inp[r].message
           /\ inp[r].route \in {"chat/database", "chat/smart"}
              => calls[r][1].user_role = inp[r].user_role
           /\ inp[r].route = "chat/rag"
              => calls[r][1].user_role = "undefined"

\* a retrieval request with surrounding blanks and a role was relayed with
\* the blanks and without the role
C23_Witness ==
    \E r \in Slots :
        /\ inp[r].route = "chat/rag"
        /\ inp[r].message.s = <<" ", "h", " ", "i", " ">>
        /\ inp[r].user_role = "admin"
        /\ phase[r] = "pending"
        /\ calls[r][1].message.s = <<" ", "h", " ", "i", " ">>
        /\ calls[r][1].user_role = "undefined"

(***************************************************************************)
(* C24                                                                     *)
(***************************************************************************)
\* everything the gateway holds for the request in slot r
SlotState(r) ==
    <<phase[r], inp[r], calls[r], elapsed[r], aborted[r], outcome[r],
      resp[r], closed[r]>>

\* the outbound call of the request is made of the request's own data and
\* goes to the fixed target of its route
OwnCall(r) ==
    calls[r] # <<>>
    => /\ Len(calls[r]) = 1
       /\ calls[r][1].url = TargetOf(inp[r].route)
       /\ inp[r].route \in TextRoutes
          => calls[r][1].message = inp[r].message
       /\ inp[r].route \in {"chat/database", "chat/smart"}
          => calls[r][1].user_role = inp[r].user_role
       /\ inp[r].route = "chat/ocr"
          => calls[r][1].bytes = inp[r].file.bufferLength

\* the response of the request is made of the reply to its own call
OwnResponse(r) ==
    /\ (Done(r) /\ calls[r] = <<>>) => resp[r].status \in {400, 401, 500}
    /\ (Done(r) /\ calls[r] # <<>> /\ outcome[r].kind = "reply"
            /\ outcome[r].data.shape = "object")
       => /\ resp[r].body.success = outcome[r].data.success
          /\ \A f \in TextFields(inp[r].route) :
               resp[r].body[f] = outcome[r].data[f]
    /\ (Done(r) /\ calls[r] # <<>> /\ outcome[r].kind = "error")
       => resp[r].status \in {408, 500, 503}

\* C24: concurrently handled requests are independent: under every
\* interleaving each request's outbound call is built from its own input
\* and sent to the fixed target of its route, its response is built from
\* the reply to its own call, two requests with equal input and equal
\* downstream outcome get equal responses, and no step of one request
\* changes anything held for the other.
C24_RequestsIndependent ==
    /\ [](\A r \in PairSlots : OwnCall(r) /\ OwnResponse(r))
    /\ [](\A a \in PairSlots, b \in PairSlots :
            (/\ Done(a) /\ Done(b)
             /\ inp[a] = inp[b]
             /\ outcome[a] = outcome[b])
            => resp[a] = resp[b] /\ calls[a] = calls[b])
    /\ [][\A a \in PairSlots, b \in PairSlots :
            (a # b /\ SlotState(a)' # SlotState(a))
            => SlotState(b)' = SlotState(b)]_vars

\* while a database request of an admin is pending, an upload has been
\* answered from the reply to its own call
C24_Witness ==
    /\ inp["p1"].route = "chat/database"
    /\ inp["p1"].message.s = <<"h", "i">>
    /\ phase["p1"] = "pending"
    /\ calls["p1"][1].url = "http://localhost:8000/chat"
    /\ calls["p1"][1].message.s = <<"h", "i">>
    /\ inp["p2"].route = "chat/ocr"
    /\ phase["p2"] = "done"
    /\ outcome["p2"].kind = "reply"
    /\ calls["p2"][1].url = "http://localhost:8000/ocr"
    /\ outcome["p2"].data.analysis = "ANALYSIS1"
    /\ resp["p2"].status = 201
    /\ resp["p2"].body.analysis = "ANALYSIS1"

(***************************************************************************)
(* C25                                                                     *)
(***************************************************************************)
InvalidTypeText == "Invalid file type. Only PDF, PNG, JPG, JPEG are allowed"

\* C25: the validation checks run in a fixed order and the first failing
\* one decides the response: a request without a Bearer header is answered
\* 401 whatever its message or file; with a Bearer header, a blank message
\* is answered 400; on /chat/ocr a missing file is answered "File is
\* required", else a disallowed type is answered with the invalid-type
\* message whatever the size, and only a file of an allowed type can be
\* answered with the too-large message.
C25_FirstFailingCheckDecides ==
    \A r \in Slots :
        (Handled(r) /\ inp[r].route \in ChatRoutes)
        => /\ LacksBearer(inp[r].auth)
              => /\ resp[r].status = 401
                 /\ resp[r].message = "Unauthorized"
           /\ (/\ ~ LacksBearer(inp[r].auth)
               /\ inp[r].route \in TextRoutes
               /\ Blank(inp[r].message))
              => /\ resp[r].status = 400
                 /\ resp[r].message = "Message is required"
           /\ (/\ ~ LacksBearer(inp[r].auth)
               /\ inp[r].route = "chat/ocr"
               /\ ~ inp[r].file.present)
              => /\ resp[r].status = 400
                 /\ resp[r].message = "File is required"
           /\ (/\ ~ LacksBearer(inp[r].auth)
               /\ inp[r].route = "chat/ocr"
               /\ inp[r].file.present
               /\ inp[r].file.mimetype \notin FormatMimeTypes)
              => /\ resp[r].status = 400
                 /\ resp[r].message = InvalidTypeText
           /\ (/\ ~ LacksBearer(inp[r].auth)
               /\ inp[r].route = "chat/ocr"
               /\ inp[r].file.present
               /\ inp[r].file.mimetype \in FormatMimeTypes
               /\ SizeOf(inp[r].file) > TenMiB)
              => /\ resp[r].status = 400
                 /\ resp[r].message = TooLargeText

\* an upload of a disallowed type and of more than 10 MiB was answered
\* with the invalid-type message
C25_Witness ==
    \E r \in Slots :
        /\ inp[r].route = "chat/ocr"
        /\ ~ LacksBearer(inp[r].auth)
        /\ inp[r].file.present
        /\ inp[r].file.mimetype = "image/gif"
        /\ inp[r].file.size > 10485760
        /\ Done(r)
        /\ resp[r].status = 400
        /\ resp[r].message = InvalidTypeText

(***************************************************************************)
(* C26                                                                     *)
(***************************************************************************)
\* C26: an upload that passes the upload validation but has no buffer or
\* an empty one is answered 500 "Failed to communicate with OCR agent"
\* without any outbound call, not 400; every other chat request that
\* passes validation has its one outbound call.
C26_EmptyBufferIs500 ==
    \A r \in Slots :
        (/\ Handled(r)
         /\ inp[r].route \in ChatRoutes
         /\ PassesValidation(inp[r]))
        => IF inp[r].route = "chat/ocr" /\ NoBytes(inp[r].file)
           THEN /\ Done(r)
                /\ calls[r] = <<>>
                /\ outcome[r].kind = "local"
                /\ resp[r].status = 500
                /\ resp[r].status # 400
                /\ resp[r].message = "Failed to communicate with OCR agent"
           ELSE Len(calls[r]) = 1

\* a png upload of size 0 with an empty buffer was answered 500 without a
\* call
C26_Witness ==
    \E r \in Slots :
        /\ inp[r].route = "chat/ocr"
        /\ ~ LacksBearer(inp[r].auth)
        /\ inp[r].file.present
        /\ inp[r].file.mimetype = "image/png"
        /\ inp[r].file.size = 0
        /\ inp[r].file.bufferLength = 0
        /\ Done(r)
        /\ calls[r] = <<>>
        /\ resp[r].status = 500
        /\ resp[r].message = "Failed to communicate with OCR agent"

(***************************************************************************)
(* C27                                                                     *)
(***************************************************************************)
\* C27 as stated: GET /chat/health reports healthy exactly when the probe
\* got a 2xx reply with a readable body (a JSON object), whatever status
\* that body carries; the downstream's status is copied, an empty or
\* absent one is reported as unknown.
C27_AsStated ==
    \A r \in Slots :
        HealthDone(r)
        => /\ resp[r].body.status = "healthy"
              <=> /\ outcome[r].kind = "reply"
                  /\ outcome[r].data.shape = "object"
           /\ resp[r].body.status = "healthy"
              => resp[r].body.python_agent =
                   IF outcome[r].data.status \in {"", "undefined"}
                   THEN "unknown"
                   ELSE outcome[r].data.status

\* C27 (amended): GET /chat/health reports healthy exactly when the probe
\* got a 2xx reply whose body is not JSON null, a body that is not JSON
\* included, whatever status the body carries: a downstream status
\* "unhealthy" is copied under gateway status healthy, and an empty or
\* absent status (also that of a body that is not JSON) is reported as
\* unknown.
C27_HealthyIffReplyNotNull ==
    \A r \in Slots :
        HealthDone(r)
        => /\ resp[r].body.status \in {"healthy", "unhealthy"}
           /\ resp[r].body.status = "healthy"
              <=> /\ outcome[r].kind = "reply"
                  /\ outcome[r].data.shape # "null"
           /\ resp[r].body.status = "healthy"
              => /\ resp[r].body.nestjs = "up"
                 /\ resp[r].body.python_agent =
                      IF \/ outcome[r].data.shape # "object"
                         \/ outcome[r].data.status \in {"", "undefined"}
                      THEN "unknown"
                      ELSE outcome[r].data.status

\* a downstream that answered 2xx with status unhealthy was reported under
\* gateway status healthy
C27_Witness ==
    \E r \in Slots :
        /\ HealthDone(r)
        /\ outcome[r].kind = "reply"
        /\ outcome[r].data.status = "unhealthy"
        /\ resp[r].status = 200
        /\ resp[r].body.status = "healthy"
        /\ resp[r].body.python_agent = "unhealthy"

(***************************************************************************)
(* C28                                                                     *)
(***************************************************************************)
\* the models call of the request ended without a usable list: it failed,
\* or its 2xx reply is not a JSON object with a true success flag
ModelsCallUnusable(r) ==
    \/ outcome[r].kind = "error"
    \/ /\ outcome[r].kind = "reply"
       /\ \/ outcome[r].data.shape # "object"
          \/ outcome[r].data.success # "true"

\* C28: GET /agent/models never fails: it always answers 200 with success
\* true, and whenever the downstream call is refused, fails otherwise,
\* returns a non-2xx status or replies with success false, the list is the
\* built-in fallback and nothing else in the body marks it as a fallback.
C28_ModelsNeverFails ==
    \A r \in Slots :
        (inp[r].route = "agent/models" /\ Done(r))
        => /\ resp[r].status = 200
           /\ resp[r].body.success = "true"
           /\ \A f \in Fields \ {"shape", "success", "models"} :
                resp[r].body[f] = "undefined"
           /\ ModelsCallUnusable(r) => resp[r].body.models = "FALLBACK_MODELS"
           /\ ~ ModelsCallUnusable(r)
              => resp[r].body.models = outcome[r].data.models

\* a models reply with success false was answered with the fallback list
\* and success true
C28_Witness ==
    \E r \in Slots :
        /\ inp[r].route = "agent/models"
        /\ Done(r)
        /\ outcome[r].kind = "reply"
        /\ outcome[r].data.success = "false"
        /\ resp[r].status = 200
        /\ resp[r].body.success = "true"
        /\ resp[r].body.models = "FALLBACK_MODELS"


(***************************************************************************)
(* C29: the loading flag of the chat UI                                    *)
(***************************************************************************)
\* the UI's chat requests (messages and uploads) that are in flight
ChatRequests ==
    {i \in 1..Len(fetches) :
       fetches[i].endpoint # "http://localhost:3000/chat/health"}
BlankText(text) == \A i \in 1..Len(text) : text[i] \in SpacingCharacters
LastMessage == IF messages = <<>> THEN "none" ELSE messages[Len(messages)]

\* C29 as stated: at most one request of the UI to the gateway is in
\* flight at any time, and the loading flag is false when none is.
C29_AsStated ==
    /\ Len(fetches) <= 1
    /\ (fetches = <<>> => ~ loading)

\* C29: at most one chat request of the UI (a message or an upload) is in
\* flight at any time, next to the status probe issued on mount, which does
\* not consult the loading flag; the loading flag is true exactly while a
\* chat request is in flight, so it is false again once the request has
\* settled, however it settled; and a chat request is only started while
\* the flag is false, a message only with a non-blank input and an upload
\* only with a selected file.
C29_LoadingSerialisesChatRequests ==
    /\ [](Cardinality(ChatRequests) <= 1)
    /\ [](loading <=> Cardinality(ChatRequests) = 1)
    /\ [][Len(fetches') > Len(fetches) =>
            /\ ~ loading
            /\ LET started == fetches'[Len(fetches')]
               IN  IF started.endpoint = "http://localhost:3000/chat/ocr"
                   THEN selectedFile # "null" /\ started.file = selectedFile
                   ELSE ~ BlankText(inputMessage)
                        /\ started.message = inputMessage]_vars
    /\ [][Len(fetches') < Len(fetches) /\ ChatRequests # {}
          /\ ChatRequests' = {} => ~ loading']_vars

\* a message request has ended in a network failure: the connect error is
\* shown, no chat request is in flight and the flag is false again, while
\* the status probe is still in flight
C29_Witness ==
    /\ LastMessage = "Error: Failed to connect to the agent. Please try again."
    /\ ChatRequests = {}
    /\ ~ loading
    /\ Len(fetches) = 1

====
